---------------------------- MODULE Spec2Model ----------------------------
(***************************************************************************)
(* A model of the WiFi signal strength / SNR monitor                       *)
(* (src/windows/BOF/src/SNR-FILE.c): the run controller go(), the sampling *)
(* loop wifi_collect_samples(), the provider wifi_get_current_signal(),    *)
(* the metric estimators, the averaging aggregator, the growable output    *)
(* buffer append_to_buffer(), the JSON escaper and the two JSON renderers. *)
(*                                                                         *)
(* A C string is a sequence of bytes; a byte is a one-character string and *)
(* the terminator '\0' is NUL.  C integer division truncates toward zero     *)
(* (CDiv).                                                                 *)
(***************************************************************************)
EXTENDS Integers, Sequences, FiniteSets, TLC

VARIABLES
    \* ---- go() / wifi_collect_samples() ----
    pc,             \* position of the run controller
    use_base_mode,  \* go(): 1 = averaged capture, 0 = continuous monitor
    duration_sec,   \* go(): base_duration or duration_sec after parsing
    alloc_len,      \* number of WifiSignalSample slots go() allocated
    samples,        \* the written slots samples[0 .. Len-1] (the rest is zeroed heap)
    count,          \* *count of wifi_collect_samples
    clock,          \* KERNEL32$GetTickCount(), a DWORD
    start_time,     \* start_time of wifi_collect_samples
    collect_ret,    \* return value of wifi_collect_samples (-1: not returned yet)
    avg,            \* the WifiSignalAverage of go() in base mode
    calls,          \* renderer functions go() has invoked, in order
    errors,         \* CALLBACK_ERROR messages printed, in order
    emitted,        \* number of structured documents handed to BeaconPrintf
    env,            \* the environment of the run: provider state, signal trace
    hist,           \* history of the loop: polls, sleeps, writes, success times
    \* ---- wifi_calculate_average() on a given buffer ----
    a_samples,      \* the sample buffer handed to wifi_calculate_average
    a_count,        \* its count argument
    a_pc,           \* "call" before the call, "returned" after it
    a_result,       \* what it returned: [ret, avg]; ret = -1 before the call
    \* ---- append_to_buffer() and the JSON renderers ----
    jb,             \* [buffer, current_pos, buffer_size, live] of the caller
    jb_prev,        \* [null, current_pos, buffer_size] before the last append call
    jb_texts,       \* the texts passed to append_to_buffer so far, in order
    jb_failed,      \* number of intAlloc calls that returned NULL
    r_pc,           \* position of the renderer
    r_todo,         \* the texts the renderer has still to append, in order
    r_out,          \* what BeaconPrintf(CALLBACK_OUTPUT, "%s", json_buffer) got
    r_err,          \* CALLBACK_ERROR messages of the renderer, in order
    \* ---- escape_json_string() on a given identifier ----
    e_input,        \* the identifier (without its terminator)
    e_pc,           \* "call" before the call, "returned" after it
    e_result,       \* what escape_json_string left behind
    \* ---- one wifi_get_current_signal() call, statement by statement ----
    p_pc,           \* position inside wifi_get_current_signal
    p_q,            \* what the wireless API answers during this call
    p_sample,       \* *sample
    p_ret,          \* its return value (-1: not returned yet)
    p_acquired,     \* resources the wireless API handed out, in order
    p_released,     \* resources passed to WlanFreeMemory / WlanCloseHandle, in order
    \* ---- go(): argument parsing ----
    g_buffer,       \* Buffer[0 .. Length-1] as first word, separator and the rest
    g_parsed,       \* the locals of go() after parsing
    \* ---- the metric estimators on a given input ----
    f_pc,           \* "call" before the call, "returned" after it
    f_fn,           \* which estimator is called
    f_arg,          \* its argument
    f_result,       \* what it returned
    \* ---- the console monitor (netsh provider), one refresh ----
    n_pc,           \* "refresh" before the refresh, "shown" after it
    n_output,       \* the captured output of netsh wlan show interfaces
    n_row           \* the values of the refresh: ssid, signal_pct, signal_dbm

runVars == <<pc, use_base_mode, duration_sec, alloc_len, samples, count, clock,
             start_time, collect_ret, avg, calls, errors, emitted, env, hist>>

avgVars == <<a_samples, a_count, a_pc, a_result>>

bufVars == <<jb, jb_prev, jb_texts, jb_failed, r_pc, r_todo, r_out, r_err>>

escVars == <<e_input, e_pc, e_result>>

provVars == <<p_pc, p_q, p_sample, p_ret, p_acquired, p_released>>

argVars == <<g_buffer, g_parsed>>

fnVars == <<f_pc, f_fn, f_arg, f_result>>

netshVars == <<n_pc, n_output, n_row>>

auxVars == <<provVars, argVars, fnVars, netshVars>>

vars == <<runVars, avgVars, bufVars, escVars, auxVars>>

-----------------------------------------------------------------------------
(* Program constants                                                       *)

MAX_SSID_LENGTH == 64
MAX_SAMPLES == 600
SAMPLE_INTERVAL_MS == 100
DEFAULT_DURATION_SEC == 5
DEFAULT_BASE_DURATION_SEC == 3
MAX_DURATION_SEC == 60

(* Bounds of the exploration                                               *)

\* A run of at most ChaosDur seconds may deviate from the nominal poll
\* (the provider finds the network, and answers at once) ...
ChaosDur == 1
\* ... by at most Chaos deviations: a poll that fails, a poll that is slow.
Chaos == 2
\* Milliseconds a slow provider query takes.
LagMs == 30
\* Number of signal traces (seeds) the environment may follow.
Seeds == 2

-----------------------------------------------------------------------------
(* C arithmetic                                                            *)

\* TLC computes in 32-bit signed integers and stops with an error when an
\* operation overflows, so every int expression below is evaluated exactly as
\* C evaluates it or not at all.  The tick counts and frequencies (DWORD,
\* ULONG) of the runs explored stay below 2^31.

\* C integer division of a by b > 0: truncation toward zero
CDivFloor(a, b) == a \div b
CDiv(a, b) == IF a >= 0 THEN a \div b ELSE -((-a) \div b)

NUL == ""

\* the bytes of a string literal
Chars(s) == [i \in 1..Len(s) |-> SubSeq(s, i, i)]

-----------------------------------------------------------------------------
(* Metric estimators                                                       *)

\* wifi_calculate_snr: *snr and *noise for a link quality and a signal
wifi_calculate_snr_from_quality(link_quality, signal_dbm) ==
    LET snr == IF link_quality >= 40 THEN 10 + CDiv(link_quality - 40, 2)
               ELSE CDiv(link_quality * 10, 40)
    IN  [snr |-> snr, noise |-> signal_dbm - CDiv(link_quality, 2)]
wifi_calculate_snr_one_line(link_quality, signal_dbm) ==
    LET snr == 10 + CDiv(link_quality - 40, 2)
    IN  [snr |-> snr, noise |-> (signal_dbm - snr)]
wifi_calculate_snr(link_quality, signal_dbm) ==
    LET snr == IF link_quality >= 90 THEN 35 + CDiv(link_quality - 90, 2)
               ELSE IF link_quality >= 80 THEN 30 + CDiv(link_quality - 80, 2)
               ELSE IF link_quality >= 70 THEN 25 + CDiv(link_quality - 70, 2)
               ELSE IF link_quality >= 60 THEN 20 + CDiv(link_quality - 60, 2)
               ELSE IF link_quality >= 50 THEN 15 + CDiv(link_quality - 50, 2)
               ELSE IF link_quality >= 40 THEN 10 + CDiv(link_quality - 40, 2)
               ELSE CDiv(link_quality * 10, 40)
    IN  [snr |-> snr, noise |-> (signal_dbm - snr)]

\* wifi_dbm_to_percent
wifi_dbm_to_percent_per_db(dbm_value) ==
    IF dbm_value >= -30 THEN 100
    ELSE IF dbm_value <= -100 THEN 0
    ELSE dbm_value + 100
wifi_dbm_to_percent(dbm_value) ==
    IF dbm_value >= -30 THEN 100
    ELSE IF dbm_value <= -100 THEN 0
    ELSE LET percent == CDiv((dbm_value + 100) * 100, 70)
         IN  IF percent < 0 THEN 0
             ELSE IF percent > 100 THEN 100
             ELSE percent

\* wifi_frequency_to_channel
wifi_frequency_to_channel_low_5ghz(freq_khz) ==
    LET freq_mhz == freq_khz \div 1000
    IN  IF freq_mhz >= 2412 /\ freq_mhz <= 2484
        THEN IF freq_mhz = 2484 THEN 14 ELSE (freq_mhz - 2407) \div 5
        ELSE IF freq_mhz >= 5170 /\ freq_mhz <= 5320
             THEN (freq_mhz - 5000) \div 5
             ELSE 0
wifi_frequency_to_channel(freq_khz) ==
    LET freq_mhz == freq_khz \div 1000
    IN  IF freq_mhz >= 2412 /\ freq_mhz <= 2484
        THEN IF freq_mhz = 2484 THEN 14 ELSE (freq_mhz - 2407) \div 5
        ELSE IF freq_mhz >= 5170 /\ freq_mhz <= 5825
             THEN (freq_mhz - 5000) \div 5
             ELSE 0

-----------------------------------------------------------------------------
(* String helpers: escape_json_string, int_to_string                       *)

Backslash == Chars("\\")[1]
Quote == Chars("\"")[1]
Newline == Chars("\n")[1]
Return == Chars("\r")[1]
Tab == Chars("\t")[1]
\* a control character escape_json_string has no branch for (0x0C)
FormFeed == Chars("\f")[1]

\* the bytes one input byte is escaped to (lines 81-99)
EscapeCharNoReturn(c) ==
    IF c = Quote \/ c = Backslash THEN <<Backslash, c>>
    ELSE IF c = Newline THEN <<Backslash, "n">>
    ELSE IF c = Tab THEN <<Backslash, "t">>
    ELSE <<c>>
EscapeChar(c) ==
    IF c = Quote \/ c = Backslash THEN <<Backslash, c>>
    ELSE IF c = Newline THEN <<Backslash, "n">>
    ELSE IF c = Return THEN <<Backslash, "r">>
    ELSE IF c = Tab THEN <<Backslash, "t">>
    ELSE <<c>>

\* the loop of escape_json_string (lines 78-102) from in_pos (a C index) on,
\* out being output[0 .. out_pos-1]
RECURSIVE EscapeLoop(_, _, _, _)
EscapeLoop(input, in_pos, out, max_len) ==
    IF in_pos < Len(input) /\ Len(out) < max_len - 2
    THEN EscapeLoop(input, in_pos + 1, out \o EscapeChar(input[in_pos + 1]), max_len)
    ELSE [text |-> out, in_pos |-> in_pos]

\* escape_json_string(input, output, max_len): the string left in output,
\* the number of input bytes consumed, and the number of bytes of output
\* written, terminator included (line 104)
escape_json_string(input, max_len) ==
    LET r == EscapeLoop(input, 0, <<>>, max_len)
    IN  [text |-> r.text, in_pos |-> r.in_pos, written |-> Len(r.text) + 1]

INT_MIN == -2147483647 - 1

\* -value in a 32-bit int (line 167): the most negative value wraps to itself
Negate32(value) == IF value = INT_MIN THEN INT_MIN ELSE -value

Digit(d) == Chars("0123456789")[d + 1]

\* the digit count loop (lines 172-182)
RECURSIVE DigitCount(_)
DigitCount(temp) == IF temp > 0 THEN 1 + DigitCount(temp \div 10) ELSE 0

\* the digits of value, least significant first (lines 195-198)
RECURSIVE ReverseDigits(_)
ReverseDigits(value) ==
    IF value > 0 THEN <<Digit(value % 10)>> \o ReverseDigits(value \div 10)
    ELSE <<>>

\* the in-place reversal (lines 209-217)
Reversed(str) == [i \in 1..Len(str) |-> str[Len(str) + 1 - i]]

\* int_to_string(value, buffer, buffer_size): the string left in buffer
int_to_string(value0, buffer_size) ==
    LET is_negative == value0 < 0
        value == IF is_negative THEN Negate32(value0) ELSE value0
        digit_count == IF value = 0 THEN 1 ELSE DigitCount(value)
        needed == IF is_negative THEN digit_count + 1 ELSE digit_count
    IN  IF needed >= buffer_size THEN <<>>
        ELSE Reversed((IF value = 0 THEN <<"0">> ELSE ReverseDigits(value))
                      \o (IF is_negative THEN <<"-">> ELSE <<>>))

-----------------------------------------------------------------------------
(* The growable output buffer: append_to_buffer                            *)

\* a heap block of size bytes from intAlloc (HEAP_ZERO_MEMORY)
ZeroBlock(size) == [i \in 1..size |-> NUL]

NullBuffer == [null |-> TRUE, data |-> <<>>]

\* required_size (line 115)
RequiredSizeNoTerminator(current_pos, text_len) == current_pos + text_len
RequiredSize(current_pos, text_len) == current_pos + text_len + 1

\* new_size (line 119)
NewSize(required_size) == required_size * 2

\* the copy of the existing data into the new block (lines 134-137)
CopiedAllButLast(new_buffer, old, current_pos) ==
    [i \in 1..Len(new_buffer) |->
        IF ~old.null /\ i <= current_pos - 1 /\ i <= Len(old.data)
        THEN old.data[i] ELSE new_buffer[i]]
Copied(new_buffer, old, current_pos) ==
    [i \in 1..Len(new_buffer) |->
        IF ~old.null /\ i <= current_pos /\ i <= Len(old.data)
        THEN old.data[i] ELSE new_buffer[i]]

\* the text and its terminator written at current_pos (lines 146-151);
\* a write past the end of the block is a heap overflow and is left out
Written(data, current_pos, text) ==
    [i \in 1..Len(data) |->
        IF i > current_pos /\ i <= current_pos + Len(text) THEN text[i - current_pos]
        ELSE IF i = current_pos + Len(text) + 1 THEN NUL
        ELSE data[i]]

\* append_to_buffer(&buffer, &current_pos, &buffer_size, text) on
\* b = [buffer, current_pos, buffer_size, live]; allocOk: the intAlloc of a
\* growth step succeeds; live: heap blocks of the renderer not yet freed
append_to_buffer(b, text, allocOk) ==
    LET text_len == Len(text)
        required_size == RequiredSize(b.current_pos, text_len)
        grow == required_size > b.buffer_size
        new_size == NewSize(required_size)
    IN  IF grow /\ ~allocOk
        THEN [buffer |-> NullBuffer, current_pos |-> 0, buffer_size |-> 0,
              live |-> IF b.buffer.null THEN b.live ELSE b.live - 1]
        ELSE LET block == IF grow
                          THEN Copied(ZeroBlock(new_size), b.buffer, b.current_pos)
                          ELSE b.buffer.data
             IN  [buffer |-> [null |-> FALSE,
                              data |-> Written(block, b.current_pos, text)],
                  current_pos |-> b.current_pos + text_len,
                  buffer_size |-> IF grow THEN new_size ELSE b.buffer_size,
                  live |-> IF grow /\ b.buffer.null THEN b.live + 1 ELSE b.live]

\* whether the call has to allocate (line 118)
NeedsGrowth(b, text) == RequiredSize(b.current_pos, Len(text)) > b.buffer_size

-----------------------------------------------------------------------------
(* The JSON renderers: the texts they append, in order                     *)

\* sizeof(temp) in both renderers (lines 509, 593)
TempSize == 64

\* MSVCRT$sprintf(line, "<before>%s<after>", value)
Formatted(before, value, after) == Chars(before) \o value \o Chars(after)

IntLine(before, value, after) ==
    Formatted(before, int_to_string(value, TempSize), after)

\* the appends of one iteration of the sample loop (lines 530-572)
SampleTexts(s, last) ==
    LET escaped_ssid == escape_json_string(s.ssid, MAX_SSID_LENGTH * 2).text
    IN  << Chars("    {\n"),
           IntLine("      \"timestamp_ms\": ", s.timestamp_ms, ",\n"),
           IntLine("      \"signal_strength_dbm\": ", s.signal_strength_dbm, ",\n"),
           IntLine("      \"link_quality\": ", s.link_quality, ",\n"),
           IntLine("      \"snr_db\": ", s.snr_db, ",\n"),
           IntLine("      \"noise_floor_dbm\": ", s.noise_floor_dbm, ",\n"),
           Formatted("      \"ssid\": \"", escaped_ssid, "\",\n"),
           IntLine("      \"frequency_khz\": ", s.frequency_khz, ",\n"),
           IntLine("      \"channel\": ", s.channel, "\n"),
           IF last THEN Chars("    }\n") ELSE Chars("    },\n") >>

\* the appends of the sample loop from iteration i (a C index) on
RECURSIVE SampleLoopTexts(_, _, _)
SampleLoopTexts(arr, sample_count, i) ==
    IF i < sample_count
    THEN SampleTexts(arr[i + 1], ~(i < sample_count - 1))
         \o SampleLoopTexts(arr, sample_count, i + 1)
    ELSE <<>>

\* every text send_json_monitor_data appends (lines 524-581)
MonitorTexts(arr, sample_count) ==
    << Chars("\n[JSON_START]\n"),
       Chars("{\n"),
       Chars("  \"collection_type\": \"monitor\",\n"),
       Chars("  \"samples\": [\n") >>
    \o SampleLoopTexts(arr, sample_count, 0)
    \o << Chars("  ],\n"),
          IntLine("  \"total_samples\": ", sample_count, "\n}\n"),
          Chars("[JSON_END]\n\n") >>

\* every text send_json_base_data appends (lines 606-651)
BaseTexts(a) ==
    LET escaped_ssid == escape_json_string(a.ssid, MAX_SSID_LENGTH * 2).text
    IN  << Chars("\n[JSON_START]\n"),
           Chars("{\n"),
           Chars("  \"collection_type\": \"base\",\n"),
           Formatted("  \"ssid\": \"", escaped_ssid, "\",\n"),
           IntLine("  \"sample_count\": ", a.sample_count, ",\n"),
           IntLine("  \"frequency_khz\": ", a.frequency_khz, ",\n"),
           IntLine("  \"channel\": ", a.channel, ",\n"),
           IntLine("  \"signal_strength_dbm\": ", a.signal_strength_dbm, ",\n"),
           IntLine("  \"link_quality\": ", a.link_quality, ",\n"),
           IntLine("  \"snr_db\": ", a.snr_db, ",\n"),
           IntLine("  \"noise_floor_dbm\": ", a.noise_floor_dbm, ",\n"),
           IntLine("  \"signal_percent\": ", a.signal_percent, ",\n"),
           IntLine("  \"noise_percent\": ", a.noise_percent, "\n}\n"),
           Chars("[JSON_END]\n\n") >>

\* the first allocation of the renderers (lines 514, 597)
MonitorBufferSize(sample_count) == (sample_count * 250) + 1024
BaseBufferSize == 2048

\* the C string starting at data[from]: the bytes before the first
\* terminator, searched a stretch at a time
RECURSIVE CStringFrom(_, _)
CStringFrom(data, from) ==
    LET to == IF from + 63 > Len(data) THEN Len(data) ELSE from + 63
    IN  IF from > Len(data) THEN <<>>
        ELSE IF \A i \in from..to : data[i] # NUL
        THEN SubSeq(data, from, to) \o CStringFrom(data, to + 1)
        ELSE LET nul == CHOOSE i \in from..to :
                            data[i] = NUL /\ \A j \in from..(i - 1) : data[j] # NUL
             IN  SubSeq(data, from, nul - 1)

CString(data) == CStringFrom(data, 1)

-----------------------------------------------------------------------------
(* The provider: wifi_get_current_signal                                   *)

\* a zeroed WifiSignalSample slot (HEAP_ZERO_MEMORY)
ZeroSample ==
    [timestamp_ms |-> 0, signal_strength_dbm |-> 0, link_quality |-> 0,
     snr_db |-> 0, noise_floor_dbm |-> 0, ssid |-> <<>>,
     frequency_khz |-> 0, channel |-> 0]

\* index (from 1) of the first BSS entry whose SSID equals currentSsid, 0 if none
RECURSIVE FirstMatch(_, _, _)
FirstMatch(entries, currentSsid, i) ==
    IF i > Len(entries) THEN 0
    ELSE IF entries[i].dot11Ssid = currentSsid THEN i
    ELSE FirstMatch(entries, currentSsid, i + 1)

\* the sample fields written for the matching BSS entry (lines 382-400)
FillSample(slot, e, currentSsid, tick) ==
    LET ssidLen == IF Len(currentSsid) > MAX_SSID_LENGTH - 1
                   THEN MAX_SSID_LENGTH - 1 ELSE Len(currentSsid)
        sig == e.lRssi
        lq  == e.uLinkQuality
        est == wifi_calculate_snr(lq, sig)
    IN  [slot EXCEPT !.ssid = SubSeq(currentSsid, 1, ssidLen),
                     !.signal_strength_dbm = sig,
                     !.link_quality = lq,
                     !.frequency_khz = e.ulChCenterFrequency,
                     !.channel = wifi_frequency_to_channel(e.ulChCenterFrequency),
                     !.snr_db = est.snr,
                     !.noise_floor_dbm = est.noise,
                     !.timestamp_ms = tick]

\* a provider that fills the slot from the first BSS entry before it
\* compares identifiers
wifi_get_current_signal_fill_first(q, slot, tick) ==
    IF q.stage # "listed" \/ q.entries = <<>> THEN [found |-> 0, sample |-> slot]
    ELSE LET m == FirstMatch(q.entries, q.currentSsid, 1)
         IN  [found |-> IF m = 0 THEN 0 ELSE 1,
              sample |-> FillSample(slot, q.entries[IF m = 0 THEN 1 ELSE m],
                                    q.currentSsid, tick)]

\* wifi_get_current_signal(&slot) when the wireless API answers q at tick:
\* the return value and the slot afterwards
wifi_get_current_signal(q, slot, tick) ==
    IF q.stage # "listed" THEN [found |-> 0, sample |-> slot]
    ELSE LET m == FirstMatch(q.entries, q.currentSsid, 1)
         IN  IF m = 0 THEN [found |-> 0, sample |-> slot]
             ELSE [found |-> 1,
                   sample |-> FillSample(slot, q.entries[m], q.currentSsid, tick)]

-----------------------------------------------------------------------------
(* The environment of a run                                                *)

\* the network the host is associated with, and a neighbour
MySsid(seed) == IF seed % 2 = 0 THEN Chars("lab") ELSE Chars("a\"b\\")
OtherSsid == Chars("guest")
MyFreq(seed) == IF seed % 2 = 0 THEN 2437000 ELSE 5180000

\* the BSS list at the p-th poll of a run: the signal wanders over -100..0 dBm
\* and the link quality over 0..100
BssAt(seed, p) ==
    <<[dot11Ssid |-> OtherSsid, lRssi |-> -70, uLinkQuality |-> 55,
       ulChCenterFrequency |-> 2412000],
      [dot11Ssid |-> MySsid(seed),
       lRssi |-> -100 + ((13 * p + 41 * seed) % 101),
       uLinkQuality |-> (7 * p + 90 + 53 * seed) % 101,
       ulChCenterFrequency |-> MyFreq(seed)]>>

\* the answers of the wireless API on which the provider reports NotAvailable
Unavailable(seed, p) ==
    {[stage |-> s, currentSsid |-> MySsid(seed), entries |-> <<>>] :
        s \in {"open_fail", "enum_fail", "no_interface", "query_fail", "bss_fail"}}
    \cup {[stage |-> "listed", currentSsid |-> MySsid(seed),
           entries |-> <<BssAt(seed, p)[1]>>]}

\* the answer on which it finds the associated network
Available(seed, p) ==
    [stage |-> "listed", currentSsid |-> MySsid(seed), entries |-> BssAt(seed, p)]

-----------------------------------------------------------------------------
(* The sampling loop: wifi_collect_samples                                 *)

\* number of slots go() allocates (lines 892-893, 918-920)
GoAllocLenDefault(d) == CDiv(DEFAULT_BASE_DURATION_SEC * 1000, SAMPLE_INTERVAL_MS)
GoAllocLen(d) == CDiv(d * 1000, SAMPLE_INTERVAL_MS)

\* max_samples of wifi_collect_samples (lines 427-429)
MaxSamplesOf(d) ==
    LET max_samples == CDiv((d * 1000), SAMPLE_INTERVAL_MS)
    IN  IF max_samples > MAX_SAMPLES THEN MAX_SAMPLES ELSE max_samples

\* a duration test that lets the loop run one tick longer
DurationMsInclusive(d) == (d * 1000) + 1

\* duration_ms (line 426)
DurationMs(d) == (d * 1000)

\* elapsed (line 432)
ElapsedSinceBoot(now, start) == now
Elapsed(now, start) == (now - start)

\* the loop runs another iteration (lines 431-433)
LoopContinues ==
    /\ count < MaxSamplesOf(duration_sec)
    /\ Elapsed(clock, start_time) < DurationMs(duration_sec)

\* the return value (line 443)
CollectResultAlways(n) == 1
CollectResult(n) == IF n > 0 THEN 1 ELSE 0

-----------------------------------------------------------------------------
(* The averaging aggregator: wifi_calculate_average                        *)

\* slot i (from 1) of a sample array whose written prefix is arr
SlotAt(arr, i) == IF i <= Len(arr) THEN arr[i] ELSE ZeroSample

\* the running total of one field over slots lo..hi (lines 466-475); the
\* additions are exact, so the loop's left-to-right sum is the sum of the
\* two halves (halving keeps the evaluation shallow for 600 samples)
RECURSIVE TotalOver(_, _, _, _)
TotalOver(arr, lo, hi, field) ==
    IF lo > hi THEN 0
    ELSE IF lo = hi THEN SlotAt(arr, lo)[field]
    ELSE LET mid == (lo + hi) \div 2
         IN  TotalOver(arr, lo, mid, field) + TotalOver(arr, mid + 1, hi, field)

Total(arr, n, field) == TotalOver(arr, 1, n, field)

\* the total of the per-sample percentages of a dBm field
RECURSIVE TotalPercentOver(_, _, _, _)
TotalPercentOver(arr, lo, hi, field) ==
    IF lo > hi THEN 0
    ELSE IF lo = hi THEN wifi_dbm_to_percent(SlotAt(arr, lo)[field])
    ELSE LET mid == (lo + hi) \div 2
         IN  TotalPercentOver(arr, lo, mid, field)
             + TotalPercentOver(arr, mid + 1, hi, field)

TotalPercent(arr, n, field) == TotalPercentOver(arr, 1, n, field)

\* the averaged value of one field (lines 488-491)
\* an aggregator that takes the noise floor from the first sample, as it
\* does the frequency and the channel
MeanOfFirstNoise(arr, n, field) ==
    IF field = "noise_floor_dbm" THEN SlotAt(arr, 1)[field]
    ELSE CDiv(Total(arr, n, field), n)
MeanOfFloor(arr, n, field) == CDivFloor(Total(arr, n, field), n)
MeanOf(arr, n, field) == CDiv(Total(arr, n, field), n)

\* the percentage of one averaged dBm field (lines 494-495)
PercentOfMeanPerSample(arr, n, field) == CDiv(TotalPercent(arr, n, field), n)
PercentOfMean(arr, n, field) == wifi_dbm_to_percent(MeanOf(arr, n, field))

\* the identifier copied from the first sample (lines 479-482): bytes up to
\* the terminator, at most MAX_SSID_LENGTH of them
CopySsid(ssid) ==
    IF Len(ssid) >= MAX_SSID_LENGTH THEN SubSeq(ssid, 1, MAX_SSID_LENGTH) ELSE ssid

NoAverage == [sample_count |-> 0]

\* wifi_calculate_average(samples, count, &avg): return value and *avg
wifi_calculate_average(arr, n) ==
    IF n = 0 THEN [ret |-> 0, avg |-> NoAverage]
    ELSE [ret |-> 1,
          avg |-> [ssid |-> CopySsid(SlotAt(arr, 1).ssid),
                   signal_strength_dbm |-> MeanOf(arr, n, "signal_strength_dbm"),
                   link_quality |-> MeanOf(arr, n, "link_quality"),
                   snr_db |-> MeanOf(arr, n, "snr_db"),
                   noise_floor_dbm |-> MeanOf(arr, n, "noise_floor_dbm"),
                   signal_percent |-> PercentOfMean(arr, n, "signal_strength_dbm"),
                   noise_percent |-> PercentOfMean(arr, n, "noise_floor_dbm"),
                   sample_count |-> n,
                   frequency_khz |-> SlotAt(arr, 1).frequency_khz,
                   channel |-> SlotAt(arr, 1).channel]]

-----------------------------------------------------------------------------
(* The run controller go() and the loop of wifi_collect_samples            *)

\* tick counts at which a run may start
StartTicks == {86399950}

\* the signal traces explored for a run: every trace for a run that may
\* deviate, one trace (by the parity of the duration) for a longer run
TracesOf(d) == IF d <= ChaosDur THEN 0..(Seeds - 1) ELSE {d % Seeds}

\* the array after a write to slot i (from 1)
WriteSlot(arr, i, v) ==
    IF i <= Len(arr) THEN [arr EXCEPT ![i] = v]
    ELSE [k \in 1..i |-> IF k = i THEN v ELSE SlotAt(arr, k)]

InitRun ==
    /\ pc = "go"
    /\ use_base_mode \in {0, 1}
    /\ duration_sec \in 1..MAX_DURATION_SEC
    /\ alloc_len = 0
    /\ samples = <<>>
    /\ count = 0
    /\ clock \in StartTicks
    /\ start_time = 0
    /\ collect_ret = -1
    /\ avg = NoAverage
    /\ calls = <<>>
    /\ errors = <<>>
    /\ emitted = 0
    /\ \E down \in BOOLEAN, seed \in TracesOf(duration_sec) :
          env = [down |-> down, seed |-> seed,
                 chaos |-> IF duration_sec <= ChaosDur /\ ~down THEN Chaos ELSE 0]
    /\ hist = [polls |-> 0, sleeps |-> 0, oob |-> FALSE, succ_at |-> <<>>, lagged |-> 0]

\* go(): allocate the sample buffer (lines 892-897, 918-924) and enter
\* wifi_collect_samples (lines 423-429)
GoAlloc(ok) ==
    /\ pc = "go"
    /\ IF ok
       THEN /\ alloc_len' = GoAllocLen(duration_sec)
            /\ count' = 0
            /\ start_time' = clock
            /\ pc' = "loop"
            /\ UNCHANGED errors
       ELSE /\ errors' = Append(errors, "Failed to allocate sample buffer")
            /\ pc' = "done"
            /\ UNCHANGED <<alloc_len, count, start_time>>
    /\ UNCHANGED <<use_base_mode, duration_sec, samples, clock, collect_ret, avg,
                   calls, emitted, env, hist>>

\* one iteration of the loop (lines 431-441): the provider answers q after
\* lag ms, then the loop sleeps one interval
Poll(q, lag) ==
    /\ pc = "loop"
    /\ LoopContinues
    /\ LET elapsed == Elapsed(clock, start_time)
           back    == clock + lag
           r       == wifi_get_current_signal(q, SlotAt(samples, count + 1), back)
           cost    == (IF r.found = 0 THEN 1 ELSE 0) + (IF lag > 0 THEN 1 ELSE 0)
       IN  /\ IF env.down THEN r.found = 0 /\ lag = 0
                          ELSE cost <= env.chaos
           /\ env' = [env EXCEPT !.chaos = IF env.down THEN 0 ELSE @ - cost]
           /\ IF r.found = 1
              THEN /\ samples' = WriteSlot(samples, count + 1,
                                           [r.sample EXCEPT !.timestamp_ms = elapsed])
                   /\ count' = count + 1
              ELSE /\ samples' = IF r.sample = SlotAt(samples, count + 1)
                                 THEN samples
                                 ELSE WriteSlot(samples, count + 1, r.sample)
                   /\ count' = count
           /\ clock' = back + SAMPLE_INTERVAL_MS
           /\ hist' = [hist EXCEPT
                         !.polls = @ + 1,
                         !.sleeps = @ + 1,
                         !.oob = @ \/ (samples' # samples /\ count >= alloc_len),
                         !.succ_at = IF r.found = 1
                                     THEN Append(@, Elapsed(back, start_time)) ELSE @,
                         !.lagged = @ + (IF lag > 0 THEN 1 ELSE 0)]
    /\ UNCHANGED <<pc, use_base_mode, duration_sec, alloc_len, start_time,
                   collect_ret, avg, calls, errors, emitted>>

\* the loop ends and wifi_collect_samples returns (lines 431, 433, 443)
CollectReturn ==
    /\ pc = "loop"
    /\ ~LoopContinues
    /\ collect_ret' = CollectResult(count)
    /\ pc' = "collected"
    /\ UNCHANGED <<use_base_mode, duration_sec, alloc_len, samples, count, clock,
                   start_time, avg, calls, errors, emitted, env, hist>>

\* go(), base mode, samples collected (lines 901-907): average, then both
\* renderers; jsonOk: the renderer's buffer could be allocated
BaseRender(jsonOk) ==
    /\ pc = "collected"
    /\ use_base_mode = 1
    /\ collect_ret # 0 /\ count > 0
    /\ LET r == wifi_calculate_average(samples, count)
       IN  IF r.ret # 0
           THEN /\ avg' = r.avg
                /\ calls' = calls \o <<"display_base_signal", "send_json_base_data">>
                /\ emitted' = emitted + (IF jsonOk THEN 1 ELSE 0)
           ELSE UNCHANGED <<avg, calls, emitted>>
    /\ pc' = "done"
    /\ UNCHANGED <<use_base_mode, duration_sec, alloc_len, samples, count, clock,
                   start_time, collect_ret, errors, env, hist>>

\* go(), base mode, nothing collected (lines 908-910)
BaseFail ==
    /\ pc = "collected"
    /\ use_base_mode = 1
    /\ ~(collect_ret # 0 /\ count > 0)
    /\ errors' = Append(errors, "Failed to capture base signal data")
    /\ pc' = "done"
    /\ UNCHANGED <<use_base_mode, duration_sec, alloc_len, samples, count, clock,
                   start_time, collect_ret, avg, calls, emitted, env, hist>>

\* go(), monitor mode, samples collected (lines 934-945)
MonitorRender(jsonOk) ==
    /\ pc = "collected"
    /\ use_base_mode = 0
    /\ collect_ret # 0
    /\ calls' = calls \o <<"display_signal_samples", "send_json_monitor_data">>
    /\ emitted' = emitted + (IF jsonOk THEN 1 ELSE 0)
    /\ pc' = "done"
    /\ UNCHANGED <<use_base_mode, duration_sec, alloc_len, samples, count, clock,
                   start_time, collect_ret, avg, errors, env, hist>>

\* go(), monitor mode, nothing collected (lines 946-949)
MonitorFail ==
    /\ pc = "collected"
    /\ use_base_mode = 0
    /\ collect_ret = 0
    /\ errors' = Append(errors, "Failed to collect WiFi signal strength data")
    /\ pc' = "done"
    /\ UNCHANGED <<use_base_mode, duration_sec, alloc_len, samples, count, clock,
                   start_time, collect_ret, avg, calls, emitted, env, hist>>

\* what the wireless API may answer at the next poll
Answers == Unavailable(env.seed, hist.polls) \cup {Available(env.seed, hist.polls)}

NextRun ==
    \/ \E ok \in BOOLEAN : GoAlloc(ok)
    \/ \E q \in Answers, lag \in {0, LagMs} : Poll(q, lag)
    \/ CollectReturn
    \/ \E jsonOk \in BOOLEAN : BaseRender(jsonOk)
    \/ BaseFail
    \/ \E jsonOk \in BOOLEAN : MonitorRender(jsonOk)
    \/ MonitorFail

IdleAvg == a_samples = <<>> /\ a_count = 0 /\ a_pc = "idle" /\ a_result = [ret |-> -1, avg |-> NoAverage]

IdleJb == [buffer |-> NullBuffer, current_pos |-> 0, buffer_size |-> 0, live |-> 0]

Before(b) ==
    [null |-> b.buffer.null, current_pos |-> b.current_pos, buffer_size |-> b.buffer_size]

IdleBuf ==
    /\ jb = IdleJb /\ jb_prev = Before(IdleJb) /\ jb_texts = <<>> /\ jb_failed = 0
    /\ r_pc = "idle" /\ r_todo = <<>> /\ r_out = <<>> /\ r_err = <<>>

IdleEsc ==
    e_input = <<>> /\ e_pc = "idle" /\ e_result = [text |-> <<>>, in_pos |-> 0, written |-> 0]

IdleProv ==
    /\ p_pc = "idle" /\ p_ret = -1 /\ p_sample = ZeroSample
    /\ p_q = [stage |-> "open_fail", currentSsid |-> <<>>, entries |-> <<>>]
    /\ p_acquired = <<>> /\ p_released = <<>>

NotParsed ==
    [use_base_mode |-> 0, duration_sec |-> DEFAULT_DURATION_SEC,
     base_duration |-> DEFAULT_BASE_DURATION_SEC, notes |-> <<>>]

NoArgs == [word |-> <<>>, sep |-> <<>>, tail |-> <<>>]

IdleArg == g_buffer = NoArgs /\ g_parsed = NotParsed

IdleFn == f_pc = "idle" /\ f_fn = "none" /\ f_arg = 0 /\ f_result = 0

NoRow == [ssid |-> <<>>, signal_pct |-> 0, signal_dbm_halves |-> 0]

NoOutput == [state |-> "", ssid |-> "", signal |-> [kind |-> "absent", p |-> 0, text |-> ""]]

IdleNetsh == n_pc = "idle" /\ n_output = NoOutput /\ n_row = NoRow

IdleAux == IdleProv /\ IdleArg /\ IdleFn /\ IdleNetsh

Init == InitRun /\ IdleAvg /\ IdleBuf /\ IdleEsc /\ IdleAux
Next == NextRun /\ UNCHANGED <<avgVars, bufVars, escVars, auxVars>>
Spec == Init /\ [][Next]_vars

\* wifi_collect_samples in a run that keeps executing: every call of the
\* wireless API and every Sleep returns, so a step that can be taken is
\* taken.  The loop does not read the mode; the monitor call (line 944) is
\* the one explored.
InitLive == Init /\ use_base_mode = 0

NextLive ==
    /\ \/ \E ok \in BOOLEAN : GoAlloc(ok)
       \/ \E q \in Answers, lag \in {0, LagMs} : Poll(q, lag)
       \/ CollectReturn
    /\ UNCHANGED <<avgVars, bufVars, escVars, auxVars>>

SpecLive == InitLive /\ [][NextLive]_vars /\ WF_vars(NextLive)

-----------------------------------------------------------------------------
(* wifi_calculate_average applied to a given buffer (specification SpecAvg) *)

\* longest buffer handed to the aggregator
MaxAvgLen == 3

\* BSS readings the samples of a buffer are made from
Readings ==
    {[dot11Ssid |-> Chars("lab"), lRssi |-> -50, uLinkQuality |-> 90,
      ulChCenterFrequency |-> 2437000],
     [dot11Ssid |-> Chars("lab"), lRssi |-> -60, uLinkQuality |-> 72,
      ulChCenterFrequency |-> 2437000],
     [dot11Ssid |-> Chars("lab"), lRssi |-> -40, uLinkQuality |-> 100,
      ulChCenterFrequency |-> 2462000],
     [dot11Ssid |-> Chars("a\"b"), lRssi |-> -41, uLinkQuality |-> 37,
      ulChCenterFrequency |-> 5180000],
     [dot11Ssid |-> Chars("a\"b"), lRssi |-> -95, uLinkQuality |-> 5,
      ulChCenterFrequency |-> 5180000],
     [dot11Ssid |-> Chars("cafe"), lRssi |-> -20, uLinkQuality |-> 55,
      ulChCenterFrequency |-> 2484000]}

\* the buffer wifi_collect_samples builds from a sequence of readings, one
\* poll per interval
BufferOf(rs) ==
    [i \in 1..Len(rs) |->
        [FillSample(ZeroSample, rs[i], rs[i].dot11Ssid, 0)
            EXCEPT !.timestamp_ms = (i - 1) * SAMPLE_INTERVAL_MS]]

ReadingSeqs == UNION {[1..n -> Readings] : n \in 0..MaxAvgLen}

IdleRun ==
    /\ pc = "idle" /\ use_base_mode = 0 /\ duration_sec = 0 /\ alloc_len = 0
    /\ samples = <<>> /\ count = 0 /\ clock = 0 /\ start_time = 0
    /\ collect_ret = -1 /\ avg = NoAverage /\ calls = <<>> /\ errors = <<>>
    /\ emitted = 0 /\ env = [down |-> TRUE, seed |-> 0, chaos |-> 0]
    /\ hist = [polls |-> 0, sleeps |-> 0, oob |-> FALSE, succ_at |-> <<>>,
               lagged |-> 0]

InitAvg ==
    /\ \E rs \in ReadingSeqs : a_samples = BufferOf(rs)
    /\ a_count = Len(a_samples)
    /\ a_pc = "call"
    /\ a_result = [ret |-> -1, avg |-> NoAverage]
    /\ IdleRun /\ IdleBuf /\ IdleEsc /\ IdleAux

\* the call wifi_calculate_average(samples, count, &avg)
Average ==
    /\ a_pc = "call"
    /\ a_pc' = "returned"
    /\ a_result' = wifi_calculate_average(a_samples, a_count)
    /\ UNCHANGED <<a_samples, a_count>>

NextAvg == Average /\ UNCHANGED <<runVars, bufVars, escVars, auxVars>>
SpecAvg == InitAvg /\ [][NextAvg]_vars

-----------------------------------------------------------------------------
(* escape_json_string on a given identifier (specification SpecEsc)        *)

\* identifiers up to this length are explored exhaustively
MaxEscLen == 3

\* sizeof(escaped_ssid) in both renderers (lines 511, 595)
EscapedSsidSize == MAX_SSID_LENGTH * 2

Specials == <<Quote, Backslash, Newline, Tab, Return>>

EscAlphabet == {Specials[i] : i \in 1..Len(Specials)} \cup {"n", FormFeed}

\* the longest identifiers a sample can hold (ssid[MAX_SSID_LENGTH] with its
\* terminator), made of one byte repeated or of the five special bytes in turn
LongLens == {MAX_SSID_LENGTH - 2, MAX_SSID_LENGTH - 1}

EscInputs ==
    UNION {[1..n -> EscAlphabet] : n \in 0..MaxEscLen}
    \cup {[i \in 1..n |-> c] : c \in EscAlphabet, n \in LongLens}
    \cup {[i \in 1..n |-> Specials[((i + o) % Len(Specials)) + 1]] :
              o \in 0..(Len(Specials) - 1), n \in LongLens}

InitEsc ==
    /\ e_input \in EscInputs
    /\ e_pc = "call"
    /\ e_result = [text |-> <<>>, in_pos |-> 0, written |-> 0]
    /\ IdleRun /\ IdleAvg /\ IdleBuf /\ IdleAux

\* the call escape_json_string(s->ssid, escaped_ssid, sizeof(escaped_ssid))
Escape ==
    /\ e_pc = "call"
    /\ e_pc' = "returned"
    /\ e_result' = escape_json_string(e_input, EscapedSsidSize)
    /\ UNCHANGED e_input

NextEsc == Escape /\ UNCHANGED <<runVars, avgVars, bufVars, auxVars>>
SpecEsc == InitEsc /\ [][NextEsc]_vars

-----------------------------------------------------------------------------
(* append_to_buffer on a buffer of its caller (specification SpecBuf)      *)

\* capacities the caller's first allocation may have
MaxInitCap == 3
\* length of the longest text appended
MaxTextLen == 3
\* number of append_to_buffer calls explored
MaxAppends == 4

\* texts without a terminator inside: pieces of "abcd..." of every length
\* from 0 to MaxTextLen, starting at its first or second byte
BufTexts ==
    {SubSeq(Chars("abcdefgh"), o, o + k - 1) : o \in 1..2, k \in 0..MaxTextLen}

\* the caller's buffer right after char* b = intAlloc(size); pos = 0
FreshBuffer(size) ==
    [buffer |-> [null |-> FALSE, data |-> ZeroBlock(size)],
     current_pos |-> 0, buffer_size |-> size, live |-> 1]

InitBuf ==
    /\ \E cap \in 1..MaxInitCap : jb = FreshBuffer(cap)
    /\ jb_prev = Before(jb)
    /\ jb_texts = <<>> /\ jb_failed = 0
    /\ r_pc = "appending" /\ r_todo = <<>> /\ r_out = <<>> /\ r_err = <<>>
    /\ IdleRun /\ IdleAvg /\ IdleEsc /\ IdleAux

\* the statement append_to_buffer(&json_buffer, &buffer_pos, &buffer_size, text);
\* allocOk is the outcome of its intAlloc, if it makes one
AppendCall(text, allocOk) ==
    /\ allocOk \/ NeedsGrowth(jb, text)
    /\ jb' = append_to_buffer(jb, text, allocOk)
    /\ jb_prev' = Before(jb)
    /\ jb_texts' = Append(jb_texts, text)
    /\ jb_failed' = jb_failed + (IF allocOk THEN 0 ELSE 1)
    /\ r_err' = IF allocOk THEN r_err
                ELSE Append(r_err, "Failed to allocate buffer memory")

AppendAny ==
    /\ r_pc = "appending"
    /\ Len(jb_texts) < MaxAppends
    /\ \E text \in BufTexts, allocOk \in BOOLEAN : AppendCall(text, allocOk)
    /\ UNCHANGED <<r_pc, r_todo, r_out>>

NextBuf == AppendAny /\ UNCHANGED <<runVars, avgVars, escVars, auxVars>>
SpecBuf == InitBuf /\ [][NextBuf]_vars

-----------------------------------------------------------------------------
(* The JSON renderers, append by append (specification SpecRender)         *)

\* length of the long network identifier of the rendered samples
LongSsidLen == 32
\* sample buffers up to this length are rendered for every mix of readings
MaxRenderMix == 2
\* length of the long sample buffers, which overrun the first allocation
RenderLen == 27

RenderReadings ==
    {[dot11Ssid |-> Chars("lab"), lRssi |-> -50, uLinkQuality |-> 90,
      ulChCenterFrequency |-> 2437000],
     [dot11Ssid |-> Chars("a\"b"), lRssi |-> -95, uLinkQuality |-> 5,
      ulChCenterFrequency |-> 5180000],
     [dot11Ssid |-> [i \in 1..LongSsidLen |-> Quote], lRssi |-> -100,
      uLinkQuality |-> 100, ulChCenterFrequency |-> 5825000]}

\* the sample buffers rendered: short ones of every mix, long ones of one
\* reading repeated
RenderBuffers ==
    {BufferOf(rs) : rs \in UNION {[1..n -> RenderReadings] : n \in 1..MaxRenderMix}}
    \cup {BufferOf([i \in 1..RenderLen |-> r]) : r \in RenderReadings}

\* go() about to call send_json_base_data(&avg) (line 905) or
\* send_json_monitor_data(samples, count) (line 944)
InitRender ==
    /\ \E buf \in RenderBuffers, mode \in {0, 1} :
          /\ samples = buf /\ count = Len(buf) /\ alloc_len = Len(buf)
          /\ use_base_mode = mode
          /\ avg = IF mode = 1 THEN wifi_calculate_average(buf, Len(buf)).avg
                   ELSE NoAverage
          /\ calls = IF mode = 1
                     THEN <<"display_base_signal", "send_json_base_data">>
                     ELSE <<"display_signal_samples", "send_json_monitor_data">>
          /\ r_todo = IF mode = 1 THEN BaseTexts(avg) ELSE MonitorTexts(buf, Len(buf))
    /\ pc = "render" /\ duration_sec = 0 /\ clock = 0 /\ start_time = 0
    /\ collect_ret = 1 /\ errors = <<>> /\ emitted = 0
    /\ env = [down |-> FALSE, seed |-> 0, chaos |-> 0]
    /\ hist = [polls |-> 0, sleeps |-> 0, oob |-> FALSE, succ_at |-> <<>>,
               lagged |-> 0]
    /\ jb = IdleJb /\ jb_prev = Before(IdleJb) /\ jb_texts = <<>> /\ jb_failed = 0
    /\ r_pc = "alloc" /\ r_out = <<>> /\ r_err = <<>>
    /\ IdleAvg /\ IdleEsc /\ IdleAux

\* json_buffer = intAlloc(buffer_size) and its check (lines 514-521, 597-604)
RenderAlloc(ok) ==
    /\ r_pc = "alloc"
    /\ IF ok
       THEN /\ jb' = FreshBuffer(IF use_base_mode = 1 THEN BaseBufferSize
                                 ELSE MonitorBufferSize(count))
            /\ jb_prev' = Before(jb')
            /\ r_pc' = "append"
            /\ UNCHANGED <<jb_failed, r_err>>
       ELSE /\ jb_failed' = jb_failed + 1
            /\ r_err' = Append(r_err, "Failed to allocate JSON buffer")
            /\ r_pc' = "returned"
            /\ UNCHANGED <<jb, jb_prev>>
    /\ UNCHANGED <<jb_texts, r_todo, r_out>>

\* the next append_to_buffer statement of the renderer
RenderAppend(allocOk) ==
    /\ r_pc = "append"
    /\ r_todo # <<>>
    /\ AppendCall(Head(r_todo), allocOk)
    /\ r_todo' = Tail(r_todo)
    /\ UNCHANGED <<r_pc, r_out>>

\* what BeaconPrintf(CALLBACK_OUTPUT, "%s", NULL) may do
NullStringOutcomes == {"(null)", "crash"}

\* BeaconPrintf(CALLBACK_OUTPUT, "%s", json_buffer), the two summary lines
\* and intFree(json_buffer) (lines 584-588, 653-657)
RenderSend(outcome) ==
    /\ r_pc = "append"
    /\ r_todo = <<>>
    /\ IF ~jb.buffer.null
       THEN /\ outcome = "(null)"
            /\ r_out' = Append(r_out, CString(jb.buffer.data))
            /\ jb' = [jb EXCEPT !.buffer = NullBuffer, !.live = jb.live - 1]
            /\ r_pc' = "returned"
       ELSE /\ r_out' = IF outcome = "crash" THEN r_out
                        ELSE Append(r_out, Chars("(null)"))
            /\ r_pc' = IF outcome = "crash" THEN "crashed" ELSE "returned"
            /\ jb' = jb
    /\ UNCHANGED <<jb_prev, jb_texts, jb_failed, r_todo, r_err>>

NextRender ==
    /\ \/ \E ok \in BOOLEAN : RenderAlloc(ok)
       \/ \E allocOk \in BOOLEAN : RenderAppend(allocOk)
       \/ \E outcome \in NullStringOutcomes : RenderSend(outcome)
    /\ UNCHANGED <<runVars, avgVars, escVars, auxVars>>

SpecRender == InitRender /\ [][NextRender]_vars

-----------------------------------------------------------------------------
(* One wifi_get_current_signal call, statement by statement                *)
(* (specification SpecProv)                                                *)

\* BSS lists up to this length are explored
MaxBss == 2

\* what the call releases on the exit path taken at each stage, in order
\* (lines 316, 323, 328-329, 345-346, 360-362, 409-412)
CleanupAtLeaky(stage) ==
    IF stage = "open_fail" THEN <<>>
    ELSE IF stage = "enum_fail" THEN <<"hClient">>
    ELSE IF stage \in {"no_interface", "query_fail"} THEN <<"pIfList", "hClient">>
    ELSE IF stage = "bss_fail" THEN <<"pIfList", "hClient">>
    ELSE <<"pBssList", "pConnectInfo", "pIfList", "hClient">>
CleanupAt(stage) ==
    IF stage = "open_fail" THEN <<>>
    ELSE IF stage = "enum_fail" THEN <<"hClient">>
    ELSE IF stage \in {"no_interface", "query_fail"} THEN <<"pIfList", "hClient">>
    ELSE IF stage = "bss_fail" THEN <<"pConnectInfo", "pIfList", "hClient">>
    ELSE <<"pBssList", "pConnectInfo", "pIfList", "hClient">>

\* the answers of the wireless API during one call: a failure at one of the
\* five stages, or a BSS list of up to MaxBss entries
ProvAnswers ==
    {[stage |-> st, currentSsid |-> Chars("lab"), entries |-> <<>>] :
        st \in {"open_fail", "enum_fail", "no_interface", "query_fail", "bss_fail"}}
    \cup {[stage |-> "listed", currentSsid |-> ssid, entries |-> es] :
            ssid \in {Chars("lab"), Chars("a\"b")},
            es \in UNION {[1..n -> Readings] : n \in 0..MaxBss}}

InitProv ==
    /\ p_q \in ProvAnswers
    /\ p_pc = "open" /\ p_ret = -1 /\ p_sample = ZeroSample
    /\ p_acquired = <<>> /\ p_released = <<>>
    /\ IdleRun /\ IdleAvg /\ IdleBuf /\ IdleEsc /\ IdleArg /\ IdleFn /\ IdleNetsh

\* an exit path: its releases, then return ret
ProvReturn(ret) ==
    /\ p_released' = p_released \o CleanupAt(p_q.stage)
    /\ p_ret' = ret
    /\ p_pc' = "returned"

\* a successful API call that hands out resource
ProvAcquire(resource, next) ==
    /\ p_acquired' = Append(p_acquired, resource)
    /\ p_pc' = next
    /\ UNCHANGED <<p_released, p_ret>>

\* WlanOpenHandle (lines 315-317)
ProvOpen ==
    /\ p_pc = "open"
    /\ IF p_q.stage = "open_fail"
       THEN ProvReturn(0) /\ UNCHANGED p_acquired
       ELSE ProvAcquire("hClient", "enum")
    /\ UNCHANGED <<p_q, p_sample>>

\* WlanEnumInterfaces (lines 321-325)
ProvEnum ==
    /\ p_pc = "enum"
    /\ IF p_q.stage = "enum_fail"
       THEN ProvReturn(0) /\ UNCHANGED p_acquired
       ELSE ProvAcquire("pIfList", "count")
    /\ UNCHANGED <<p_q, p_sample>>

\* pIfList->dwNumberOfItems == 0 (lines 327-331)
ProvCount ==
    /\ p_pc = "count"
    /\ IF p_q.stage = "no_interface"
       THEN ProvReturn(0) /\ UNCHANGED p_acquired
       ELSE p_pc' = "query" /\ UNCHANGED <<p_acquired, p_released, p_ret>>
    /\ UNCHANGED <<p_q, p_sample>>

\* WlanQueryInterface (lines 337-348)
ProvQuery ==
    /\ p_pc = "query"
    /\ IF p_q.stage = "query_fail"
       THEN ProvReturn(0) /\ UNCHANGED p_acquired
       ELSE ProvAcquire("pConnectInfo", "bss")
    /\ UNCHANGED <<p_q, p_sample>>

\* WlanGetNetworkBssList (lines 356-364)
ProvBss ==
    /\ p_pc = "bss"
    /\ IF p_q.stage = "bss_fail"
       THEN ProvReturn(0) /\ UNCHANGED p_acquired
       ELSE ProvAcquire("pBssList", "scan")
    /\ UNCHANGED <<p_q, p_sample>>

\* the search of the BSS list, the cleanup and return found (lines 368-414)
ProvScan ==
    /\ p_pc = "scan"
    /\ \E tick \in StartTicks :
          LET r == wifi_get_current_signal(p_q, p_sample, tick)
          IN  /\ p_sample' = r.sample
              /\ ProvReturn(r.found)
    /\ UNCHANGED <<p_q, p_acquired>>

NextProv ==
    /\ \/ ProvOpen \/ ProvEnum \/ ProvCount \/ ProvQuery \/ ProvBss \/ ProvScan
    /\ UNCHANGED <<runVars, avgVars, bufVars, escVars, argVars, fnVars, netshVars>>

SpecProv == InitProv /\ [][NextProv]_vars

-----------------------------------------------------------------------------
(* go(): argument parsing (specification SpecArgs)                         *)

\* sizes of arg_copy and mode (lines 808, 818)
ArgCopySize == 256
ModeSize == 32

IsDigit(c) == \E d \in 0..9 : c = Digit(d)

DigitValue(c) == CHOOSE d \in 0..9 : c = Digit(d)

\* an int as two 16-bit halves of its two's complement form; products of
\* the halves stay far below the largest integer of the model checker
Half == 65536

ToInt(hi, lo) == IF hi >= Half \div 2 THEN (hi - Half) * Half + lo ELSE hi * Half + lo

\* value * 10 + digit on a 32-bit int (lines 842, 867).  When the result
\* does not fit, the C program has signed overflow; the x86 builds of this
\* loop (imul/lea and add) leave the low 32 bits of the exact result
TimesTenPlus(v, digit) ==
    LET t == v.lo * 10 + digit
    IN  [hi |-> (v.hi * 10 + t \div Half) % Half, lo |-> t % Half]

\* the digit loop (lines 841-844, 866-869) from position i of text on
RECURSIVE DigitLoop(_, _, _)
DigitLoop(text, i, v) ==
    IF i <= Len(text) /\ IsDigit(text[i])
    THEN LET next == TimesTenPlus(v, DigitValue(text[i]))
         IN  IF next.lo \in 0..(Half - 1)
             THEN DigitLoop(text, i + 1, next)
             ELSE 0
    ELSE ToInt(v.hi, v.lo)

\* number of bytes of text from position i on that equal c (lines 837, 862)
RECURSIVE Run(_, _, _)
Run(text, i, c) ==
    IF i <= Len(text) /\ text[i] = c THEN 1 + Run(text, i + 1, c) ELSE 0

\* mode_len after the loop of lines 821-824
RECURSIVE ModeLen(_, _)
ModeLen(arg_copy, mode_len) ==
    IF mode_len + 1 <= Len(arg_copy) /\ arg_copy[mode_len + 1] # " "
       /\ mode_len < ModeSize - 1
    THEN ModeLen(arg_copy, mode_len + 1)
    ELSE mode_len

\* mode[k] of the zero-initialised char mode[32]
ModeAt(mode, k) == IF k + 1 <= Len(mode) THEN mode[k + 1] ELSE NUL

\* the duration after a mode keyword (lines 836-851, 861-876): the
\* variable's value when the block is left and whether the notice was printed
ParseDuration(arg_copy, mode_len, before, default) ==
    LET start == mode_len + 1 + Run(arg_copy, mode_len + 1, " ")
    IN  IF start <= Len(arg_copy) /\ IsDigit(arg_copy[start])
        THEN LET n == DigitLoop(arg_copy, start, [hi |-> 0, lo |-> 0])
             IN  IF n < 1 \/ n > MAX_DURATION_SEC
                 THEN [value |-> default, notes |-> <<"Invalid duration, using default">>]
                 ELSE [value |-> n, notes |-> <<>>]
        ELSE [value |-> before, notes |-> <<>>]

\* the keyword tests (lines 828-831 and 854-857)
LooksLikeBase(mode) ==
    /\ ModeAt(mode, 0) \in {"b", "B"} /\ ModeAt(mode, 1) \in {"a", "A"}
    /\ ModeAt(mode, 2) \in {"s", "S"} /\ ModeAt(mode, 3) \in {"e", "E"}

LooksLikeMonitor(mode) ==
    /\ ModeAt(mode, 0) \in {"m", "M"} /\ ModeAt(mode, 1) \in {"o", "O"}
    /\ ModeAt(mode, 2) \in {"n", "N"} /\ ModeAt(mode, 3) \in {"i", "I"}

\* the locals of go() after lines 802-881 for Buffer[0 .. Length-1]
ParseArgs(Buffer) ==
    IF Len(Buffer) = 0 THEN NotParsed
    ELSE LET copy_len == IF Len(Buffer) < ArgCopySize - 1 THEN Len(Buffer)
                         ELSE ArgCopySize - 1
             arg_copy == CString(SubSeq(Buffer, 1, copy_len))
             mode_len == ModeLen(arg_copy, 0)
             mode == SubSeq(arg_copy, 1, mode_len)
         IN  IF LooksLikeBase(mode)
             THEN LET d == ParseDuration(arg_copy, mode_len,
                                         DEFAULT_BASE_DURATION_SEC,
                                         DEFAULT_BASE_DURATION_SEC)
                  IN  [use_base_mode |-> 1, duration_sec |-> DEFAULT_DURATION_SEC,
                       base_duration |-> d.value, notes |-> d.notes]
             ELSE IF LooksLikeMonitor(mode)
             THEN LET d == ParseDuration(arg_copy, mode_len,
                                         DEFAULT_DURATION_SEC, DEFAULT_DURATION_SEC)
                  IN  [use_base_mode |-> 0, duration_sec |-> d.value,
                       base_duration |-> DEFAULT_BASE_DURATION_SEC, notes |-> d.notes]
             ELSE [NotParsed EXCEPT
                      !.notes = <<"No valid mode specified, using default: monitor mode">>]

\* the duration the run uses (lines 887-892, 917-922)
RunDuration(parsed) ==
    IF parsed.use_base_mode # 0 THEN parsed.base_duration ELSE parsed.duration_sec

\* Buffer[0 .. Length-1]
BufferBytes(b) == b.word \o b.sep \o b.tail

\* number of digits of the long duration arguments
LongDigits == 20

ArgWords ==
    {Chars(w) : w \in {"", "b", "bas", "base", "BASE", "bAsE", "baseline", "base5",
                       "xbase", "monitor", "Monitor", "MONITOR", "moni", "monix",
                       "monitoring", "scan"}}

ArgSeps == {<<>>, Chars(" "), Chars("   ")}

ArgTails ==
    {Chars(t) : t \in {"", "0", "1", "3", "5", "10", "59", "60", "61", "007", "060",
                       "0061", "100", "2147483647", "2147483648", "4294967295",
                       "4294967296", "4294967297", "4294967306", "4294967356",
                       "4294967357", "99999999999", "-5", "+7", "5s", "7 9", "x",
                       "10 "}}
    \cup {[i \in 1..LongDigits |-> IF i = LongDigits THEN d ELSE "0"] : d \in {"0", "7"}}
    \cup {[i \in 1..LongDigits |-> IF i = 1 THEN "1" ELSE "0"]}

\* go() entered with its arguments (line 801)
InitArgs ==
    /\ g_buffer \in [word : ArgWords, sep : ArgSeps, tail : ArgTails]
    /\ g_parsed = NotParsed
    /\ pc = "parse" /\ use_base_mode = 0 /\ duration_sec = DEFAULT_DURATION_SEC
    /\ alloc_len = 0 /\ samples = <<>> /\ count = 0 /\ clock = 0 /\ start_time = 0
    /\ collect_ret = -1 /\ avg = NoAverage /\ calls = <<>> /\ errors = <<>>
    /\ emitted = 0 /\ env = [down |-> TRUE, seed |-> 0, chaos |-> 0]
    /\ hist = [polls |-> 0, sleeps |-> 0, oob |-> FALSE, succ_at |-> <<>>,
               lagged |-> 0]
    /\ IdleAvg /\ IdleBuf /\ IdleEsc /\ IdleProv /\ IdleFn /\ IdleNetsh

\* go() up to the banner (lines 802-884)
Parse ==
    /\ pc = "parse"
    /\ g_parsed' = ParseArgs(BufferBytes(g_buffer))
    /\ use_base_mode' = g_parsed'.use_base_mode
    /\ duration_sec' = RunDuration(g_parsed')
    /\ pc' = "go"
    /\ UNCHANGED <<g_buffer, alloc_len, samples, count, clock, start_time,
                   collect_ret, avg, calls, errors, emitted, env, hist>>

NextArgs ==
    Parse /\ UNCHANGED <<avgVars, bufVars, escVars, provVars, fnVars, netshVars>>

SpecArgs == InitArgs /\ [][NextArgs]_vars

-----------------------------------------------------------------------------
(* The metric estimators on a given input (specification SpecFn)           *)

\* how far beyond the saturation points -100 and -30 dBm the inputs go
DbmMargin == 50
\* how far beyond the edges of the two bands the frequencies go, in MHz
BandMargin == 10

INT_MAX == 2147483647

\* uLinkQuality of a BSS entry is a percentage
QualityArgs == 0..100

\* signal_dbm passed along with the link quality
SnrSignal == -50

DbmArgs == ((-100 - DbmMargin)..(-30 + DbmMargin)) \cup {INT_MIN, INT_MAX}

FreqMhz ==
    ((2412 - BandMargin)..(2484 + BandMargin))
    \cup ((5170 - BandMargin)..(5825 + BandMargin))
    \cup {0, 900, 2147482}

\* ulChCenterFrequency in kHz: each MHz value with and without a remainder
FreqArgs == {mhz * 1000 + off : mhz \in FreqMhz, off \in {0, 999}}

\* values rendered by int_to_string: every value within IntMargin of zero,
\* the powers of ten and their neighbours, and both ends of the int range
IntMargin == 120

PowersOfTen == {10, 100, 1000, 10000, 100000, 1000000, 10000000, 100000000, 1000000000}

IntArgs ==
    (0 - IntMargin)..IntMargin
    \cup {s * (t + o) : s \in {-1, 1}, t \in PowersOfTen, o \in {-1, 0, 1}}
    \cup {INT_MIN, INT_MIN + 1, -2147483640, 2147483640, INT_MAX - 1, INT_MAX}

InitFn ==
    /\ \/ f_fn = "wifi_calculate_snr" /\ f_arg \in QualityArgs
       \/ f_fn = "wifi_dbm_to_percent" /\ f_arg \in DbmArgs
       \/ f_fn = "wifi_frequency_to_channel" /\ f_arg \in FreqArgs
       \/ f_fn = "int_to_string" /\ f_arg \in IntArgs
    /\ f_pc = "call" /\ f_result = 0
    /\ IdleRun /\ IdleAvg /\ IdleBuf /\ IdleEsc /\ IdleProv /\ IdleArg /\ IdleNetsh

\* wifi_calculate_snr(link_quality, signal_dbm, &snr, &noise) (line 397)
CallSnr ==
    /\ f_pc = "call" /\ f_fn = "wifi_calculate_snr"
    /\ f_result' = wifi_calculate_snr(f_arg, SnrSignal)
    /\ f_pc' = "returned"
    /\ UNCHANGED <<f_fn, f_arg>>

\* wifi_dbm_to_percent(dbm_value) (lines 494-495)
CallPercent ==
    /\ f_pc = "call" /\ f_fn = "wifi_dbm_to_percent"
    /\ f_result' = wifi_dbm_to_percent(f_arg)
    /\ f_pc' = "returned"
    /\ UNCHANGED <<f_fn, f_arg>>

\* wifi_frequency_to_channel(freq_khz) (line 395)
CallChannel ==
    /\ f_pc = "call" /\ f_fn = "wifi_frequency_to_channel"
    /\ f_result' = wifi_frequency_to_channel(f_arg)
    /\ f_pc' = "returned"
    /\ UNCHANGED <<f_fn, f_arg>>

\* int_to_string(value, temp, sizeof(temp)) in the renderers (lines 529-580)
CallIntToString ==
    /\ f_pc = "call" /\ f_fn = "int_to_string"
    /\ f_result' = int_to_string(f_arg, TempSize)
    /\ f_pc' = "returned"
    /\ UNCHANGED <<f_fn, f_arg>>

NextFn ==
    /\ \/ CallSnr \/ CallPercent \/ CallChannel \/ CallIntToString
    /\ UNCHANGED <<runVars, avgVars, bufVars, escVars, provVars, argVars, netshVars>>

SpecFn == InitFn /\ [][NextFn]_vars

-----------------------------------------------------------------------------
(* The console monitor (src/unnamed/part_001): one refresh of its loop     *)
(* on a captured command output (specification SpecNetsh)                  *)

\* sizes of ssid, signal_str and state_str (part_001 lines 103-105)
NetshSsidSize == 64
SignalStrSize == 16
StateStrSize == 32

\* strstr / strchr: index (from 1) of the first occurrence of pat in text at
\* or after position from, 0 if there is none
StrStr(text, from, pat) ==
    LET hits == {i \in from..(Len(text) - Len(pat) + 1) :
                    SubSeq(text, i, i + Len(pat) - 1) = pat}
    IN  IF hits = {} THEN 0 ELSE CHOOSE i \in hits : \A j \in hits : i <= j

\* first position at or after from whose byte is not in skip; Len+1 at the end
FirstNotIn(text, from, skip) ==
    LET rest == {i \in from..Len(text) : text[i] \notin skip}
    IN  IF rest = {} THEN Len(text) + 1 ELSE CHOOSE i \in rest : \A j \in rest : i <= j

\* first position at or after from whose byte is in stop; Len+1 at the end
FirstIn(text, from, stop) ==
    LET hits == {i \in from..Len(text) : text[i] \in stop}
    IN  IF hits = {} THEN Len(text) + 1 ELSE CHOOSE i \in hits : \A j \in hits : i <= j

Blank == {" ", Tab}
LineEnd == {Return, Newline}

\* the trailing trim of extract_value (lines 58-62)
RECURSIVE TrimRight(_)
TrimRight(text) ==
    IF Len(text) > 0 /\ text[Len(text)] \in (Blank \cup LineEnd)
    THEN TrimRight(SubSeq(text, 1, Len(text) - 1))
    ELSE text

\* extract_value(output, field, result, result_size) (lines 36-65): the
\* return value and the string left in result when it is 1
extract_value(output, field, result_size) ==
    LET none == [ok |-> 0, result |-> <<>>]
        at == StrStr(output, 1, Chars(field))
    IN  IF at = 0 THEN none
        ELSE LET colon == StrStr(output, at, <<":">>)
             IN  IF colon = 0 THEN none
                 ELSE LET p == FirstNotIn(output, colon + 1, Blank)
                      IN  IF p > Len(output) \/ output[p] \in LineEnd THEN none
                          ELSE LET end == FirstIn(output, p, LineEnd)
                                   len == IF end - p >= result_size
                                          THEN result_size - 1 ELSE end - p
                               IN  [ok |-> 1,
                                    result |-> TrimRight(SubSeq(output, p, p + len - 1))]

\* the digits at the start of text, as a number
RECURSIVE LeadingNumber(_, _, _)
LeadingNumber(text, i, v) ==
    IF i <= Len(text) /\ IsDigit(text[i])
    THEN LeadingNumber(text, i + 1, v * 10 + DigitValue(text[i]))
    ELSE v

\* sscanf_s(text, "%d%%", &value) (line 163): the number of assignments and
\* the value assigned
ScanPercent(text) ==
    LET start == FirstNotIn(text, 1, Blank \cup LineEnd)
        signed == start <= Len(text) /\ text[start] \in {"-", "+"}
        first == IF signed THEN start + 1 ELSE start
    IN  IF first <= Len(text) /\ IsDigit(text[first])
        THEN [assigned |-> 1,
              value |-> IF signed /\ text[start] = "-"
                        THEN -LeadingNumber(text, first, 0)
                        ELSE LeadingNumber(text, first, 0)]
        ELSE [assigned |-> 0, value |-> 0]

\* signal_dbm (lines 167-169), a float, in half dB: signal_pct / 2.0f - 100.0f
\* is a whole number of halves
SignalDbmHalvesTruncated(signal_pct) ==
    IF signal_pct <= 0 THEN -200
    ELSE IF signal_pct >= 100 THEN -60
    ELSE 2 * (CDiv(signal_pct, 2) - 100)
SignalDbmHalves(signal_pct) ==
    IF signal_pct <= 0 THEN -200
    ELSE IF signal_pct >= 100 THEN -60
    ELSE signal_pct - 200

\* tolower (line 132)
ToLower(c) ==
    LET upper == Chars("ABCDEFGHIJKLMNOPQRSTUVWXYZ")
        lower == Chars("abcdefghijklmnopqrstuvwxyz")
    IN  IF \E i \in 1..Len(upper) : c = upper[i]
        THEN lower[CHOOSE i \in 1..Len(upper) : c = upper[i]]
        ELSE c

\* is_connected (lines 129-134)
IsConnected(output) ==
    LET st == extract_value(output, "State", StateStrSize)
    IN  st.ok = 1
        /\ StrStr([i \in 1..Len(st.result) |-> ToLower(st.result[i])], 1,
                  Chars("connected")) # 0

\* the values of one refresh for a connected interface (lines 152-169)
NetshRow(output) ==
    LET id == extract_value(output, "SSID", NetshSsidSize)
        sig == extract_value(output, "Signal", SignalStrSize)
        signal_str == IF sig.ok = 0 THEN Chars("0%") ELSE sig.result
        scan == ScanPercent(signal_str)
        signal_pct == IF scan.assigned # 1 THEN 0 ELSE scan.value
    IN  [ssid |-> IF id.ok = 0 \/ Len(id.result) = 0 THEN Chars("Hidden/Unknown")
                  ELSE id.result,
         signal_pct |-> signal_pct,
         signal_dbm_halves |-> SignalDbmHalves(signal_pct)]

\* bounds of the captured outputs: percentages from -SignalMargin to
\* 100 + SignalMargin
SignalMargin == 20

\* one "name : value" line of the command's output
NetshLine(name, value) == Chars("    ") \o Chars(name) \o Chars("   : ") \o Chars(value) \o <<Return, Newline>>

\* the captured output: the interface lines in the order the command prints
\* them; state, ssid and signal.kind = "absent" leave their line out
NetshOutput(o) ==
    NetshLine("Name", "Wi-Fi")
    \o NetshLine("Physical address", "1c:4d:70:aa:bb:cc")
    \o (IF o.state = "absent" THEN <<>> ELSE NetshLine("State", o.state))
    \o (IF o.ssid = "absent" THEN <<>>
        ELSE NetshLine("SSID", o.ssid) \o NetshLine("BSSID", "f0:9f:c2:11:22:33"))
    \o NetshLine("Channel", "36")
    \o (IF o.signal.kind = "absent" THEN <<>> ELSE NetshLine("Signal", o.signal.text))
    \o NetshLine("Profile", "lab")

\* the decimal text of an integer
DecimalText(p) ==
    LET digits == IF p = 0 THEN <<"0">> ELSE Reversed(ReverseDigits(IF p < 0 THEN -p ELSE p))
        bytes == IF p < 0 THEN <<"-">> \o digits ELSE digits
    IN  bytes

\* a byte sequence of printable characters as a string value
RECURSIVE TextOf(_)
TextOf(bytes) ==
    IF bytes = <<>> THEN ""
    ELSE LET c == bytes[1]
         IN  (CHOOSE t \in {"0", "1", "2", "3", "4", "5", "6", "7", "8", "9", "-"} :
                  Chars(t) = <<c>>) \o TextOf(SubSeq(bytes, 2, Len(bytes)))

SignalFields ==
    {[kind |-> "percent", p |-> p, text |-> TextOf(DecimalText(p)) \o tail] :
        p \in (0 - SignalMargin)..(100 + SignalMargin), tail \in {"%", "", "% "}}
    \cup {[kind |-> "text", p |-> 0, text |-> t] : t \in {"n/a", "%", "strong", "- 5%"}}
    \cup {[kind |-> "empty", p |-> 0, text |-> ""],
          [kind |-> "absent", p |-> 0, text |-> ""]}

NetshOutputs ==
    [state : {"connected", "Connected", "disconnected", "absent"},
     ssid : {"lab", "", "absent"},
     signal : SignalFields]

InitNetsh ==
    /\ n_output \in NetshOutputs
    /\ n_pc = "refresh" /\ n_row = NoRow
    /\ IdleRun /\ IdleAvg /\ IdleBuf /\ IdleEsc /\ IdleProv /\ IdleArg /\ IdleFn

\* one pass of the loop of main on a captured output (lines 109-190)
Refresh ==
    /\ n_pc = "refresh"
    /\ LET output == NetshOutput(n_output)
       IN  IF IsConnected(output)
           THEN n_row' = NetshRow(output) /\ n_pc' = "shown"
           ELSE n_row' = n_row /\ n_pc' = "not_connected"
    /\ UNCHANGED n_output

NextNetsh ==
    Refresh /\ UNCHANGED <<runVars, avgVars, bufVars, escVars, provVars, argVars, fnVars>>

SpecNetsh == InitNetsh /\ [][NextNetsh]_vars

-----------------------------------------------------------------------------
(* Claims about a run (specification Spec)                                 *)

\* C1: after any sequence of provider outcomes, every sample stored in the
\* sample buffer satisfies noise_floor_dbm = signal_strength_dbm - snr_db,
\* whatever the link quality (0..100) and the signal strength of the poll.
C1_NoiseIsSignalMinusSnr ==
    \A i \in 1..Len(samples) :
        samples[i].noise_floor_dbm
            = samples[i].signal_strength_dbm - samples[i].snr_db

\* a buffer whose samples cover every link quality 0..100 and every signal
\* strength -100..0
C1_Witness ==
    /\ {samples[i].link_quality : i \in 1..Len(samples)} = 0..100
    /\ {samples[i].signal_strength_dbm : i \in 1..Len(samples)} = (-100)..0

\* C2: for every run duration 1..60 s and every sequence of provider
\* successes and failures, the number of collected samples never exceeds
\* min(duration*1000/100, 600), and no sample is written outside the array
\* go() allocated.
C2_WithinCapacity ==
    /\ duration_sec \in 1..60
    /\ count <= (IF duration_sec * 10 < 600 THEN duration_sec * 10 ELSE 600)
    /\ ~hist.oob
    /\ pc # "go" /\ alloc_len > 0 => Len(samples) <= alloc_len /\ count <= alloc_len

\* the longest run fills the buffer to the hard maximum
C2_Witness ==
    /\ pc = "done"
    /\ duration_sec = 60
    /\ count = 600
    /\ Len(samples) = 600

\* C3: in both modes, if the provider returns NotAvailable on every poll,
\* wifi_collect_samples reports failure (it reports success exactly when at
\* least one sample was collected), the run controller reports a failure,
\* neither renderer is invoked and no structured document is emitted.
C3_EmptyRunFails ==
    /\ collect_ret # -1 => (collect_ret = 1 <=> Len(hist.succ_at) > 0)
    /\ (pc = "done" /\ collect_ret # -1 /\ hist.succ_at = <<>>) =>
          /\ collect_ret = 0
          /\ calls = <<>>
          /\ emitted = 0
          /\ errors = <<IF use_base_mode = 1
                        THEN "Failed to capture base signal data"
                        ELSE "Failed to collect WiFi signal strength data">>

\* a monitor run that polled for its whole duration without one success
C3_Witness ==
    /\ pc = "done"
    /\ use_base_mode = 0
    /\ hist.polls = 10 * duration_sec
    /\ hist.succ_at = <<>>
    /\ errors # <<>>

\* C4: a continuous-monitor run of 5 s at interval 100 ms whose provider
\* succeeds on every poll, each sleep advancing the clock by exactly one
\* interval and the poll taking no time, collects exactly 50 samples, and the
\* stored timestamps are non-decreasing in index order.
C4_FiftySamples ==
    (/\ use_base_mode = 0
     /\ duration_sec = 5
     /\ hist.lagged = 0
     /\ Len(hist.succ_at) = hist.polls) =>
        /\ \A i \in 1..(Len(samples) - 1) :
               samples[i].timestamp_ms <= samples[i + 1].timestamp_ms
        /\ collect_ret # -1 => count = 50 /\ Len(samples) = 50

\* the end of such a run: 50 samples, the last one taken at 4900 ms
C4_Witness ==
    /\ pc = "done"
    /\ use_base_mode = 0
    /\ duration_sec = 5
    /\ hist.polls = 50
    /\ count = 50
    /\ samples[50].timestamp_ms = 4900
    /\ calls = <<"display_signal_samples", "send_json_monitor_data">>

-----------------------------------------------------------------------------
(* Claims about the averaging aggregator (specification SpecAvg)           *)

\* the sum of one field over the whole buffer
RECURSIVE SumField(_, _)
SumField(arr, field) ==
    IF arr = <<>> THEN 0 ELSE Head(arr)[field] + SumField(Tail(arr), field)

\* q is s / n rounded toward zero
IsTruncatedQuotient(q, s, n) ==
    /\ (s >= 0 => q >= 0 /\ q * n <= s /\ s < (q + 1) * n)
    /\ (s <= 0 => q <= 0 /\ q * n >= s /\ s > (q - 1) * n)

AveragedFields ==
    {"signal_strength_dbm", "link_quality", "snr_db", "noise_floor_dbm"}

\* C5: for a non-empty buffer the four averaged fields are the field's sum
\* over all samples divided by the count, truncated toward zero (signal
\* strengths -50, -60, -40 give -50); sample_count is the number of samples
\* (>= 1); identifier, frequency and channel are those of the first sample.
\* For an empty buffer the function reports failure.
C5_TruncatedMeans ==
    a_pc = "returned" =>
        IF a_count = 0 THEN a_result.ret = 0
        ELSE /\ a_result.ret = 1
             /\ \A f \in AveragedFields :
                   IsTruncatedQuotient(a_result.avg[f], SumField(a_samples, f),
                                       Len(a_samples))
             /\ a_result.avg.sample_count = Len(a_samples)
             /\ a_result.avg.sample_count >= 1
             /\ a_result.avg.ssid = a_samples[1].ssid
             /\ a_result.avg.frequency_khz = a_samples[1].frequency_khz
             /\ a_result.avg.channel = a_samples[1].channel
             /\ [i \in 1..Len(a_samples) |-> a_samples[i].signal_strength_dbm]
                    = <<-50, -60, -40>> => a_result.avg.signal_strength_dbm = -50

\* an average whose sum is negative and not a multiple of the count, over
\* samples of different networks: -151 / 3 is -50, from the first sample "lab"
C5_Witness ==
    /\ a_pc = "returned"
    /\ [i \in 1..Len(a_samples) |-> a_samples[i].signal_strength_dbm]
           = <<-50, -60, -41>>
    /\ a_result.avg.signal_strength_dbm = -50
    /\ a_result.avg.sample_count = 3
    /\ a_result.avg.ssid = Chars("lab")
    /\ a_samples[3].ssid # Chars("lab")

\* C6: signal_percent = dbmToPercent(averaged signal strength) and
\* noise_percent = dbmToPercent(averaged noise floor): the percentages come
\* from the averaged dBm values, not from the mean of per-sample percentages.
C6_PercentOfAverage ==
    (a_pc = "returned" /\ a_count > 0) =>
        /\ a_result.avg.signal_percent
              = wifi_dbm_to_percent(a_result.avg.signal_strength_dbm)
        /\ a_result.avg.noise_percent
              = wifi_dbm_to_percent(a_result.avg.noise_floor_dbm)

\* an average whose signal_percent differs from the mean of the per-sample
\* percentages
C6_Witness ==
    /\ a_pc = "returned"
    /\ a_count > 1
    /\ a_result.avg.signal_percent
          # CDiv(TotalPercent(a_samples, a_count, "signal_strength_dbm"), a_count)
    /\ a_result.avg.noise_percent
          # CDiv(TotalPercent(a_samples, a_count, "noise_floor_dbm"), a_count)

-----------------------------------------------------------------------------
(* Claims about the JSON escaper (specification SpecEsc)                   *)

\* reversing the escape rules, from position i of the escaped text on
RECURSIVE Unescape(_, _)
Unescape(out, i) ==
    IF i > Len(out) THEN <<>>
    ELSE IF out[i] = Backslash /\ i < Len(out)
    THEN LET c == out[i + 1]
             d == IF c = "n" THEN Newline
                  ELSE IF c = "r" THEN Return
                  ELSE IF c = "t" THEN Tab
                  ELSE c
         IN  <<d>> \o Unescape(out, i + 2)
    ELSE <<out[i]>> \o Unescape(out, i + 1)

\* an occurrence, from position i on, of one of the five characters that is
\* not part of an escape pair (or a backslash that starts no escape pair)
RECURSIVE HasRawSpecial(_, _)
HasRawSpecial(out, i) ==
    IF i > Len(out) THEN FALSE
    ELSE IF out[i] = Backslash
    THEN IF i < Len(out) /\ out[i + 1] \in {Quote, Backslash, "n", "r", "t"}
         THEN HasRawSpecial(out, i + 2)
         ELSE TRUE
    ELSE IF out[i] \in {Quote, Newline, Tab, Return} THEN TRUE
    ELSE HasRawSpecial(out, i + 1)

\* C10: for every identifier of at most 63 bytes, escape_json_string with
\* the renderers' 128-byte output buffer consumes the whole identifier
\* (no truncation), writes no more than 128 bytes, terminator included,
\* leaves none of the five characters unescaped, and reversing the escape
\* rules on its output gives the identifier back.
C10_EscapeRoundTrip ==
    (e_pc = "returned" /\ Len(e_input) <= MAX_SSID_LENGTH - 1) =>
        /\ e_result.in_pos = Len(e_input)
        /\ e_result.written <= EscapedSsidSize
        /\ ~HasRawSpecial(e_result.text, 1)
        /\ Unescape(e_result.text, 1) = e_input

\* a 63-byte identifier made only of the five characters, all five present,
\* has been escaped to 126 bytes
C10_Witness ==
    /\ e_pc = "returned"
    /\ Len(e_input) = MAX_SSID_LENGTH - 1
    /\ \A i \in 1..Len(Specials) : \E j \in 1..Len(e_input) : e_input[j] = Specials[i]
    /\ \A j \in 1..Len(e_input) : \E i \in 1..Len(Specials) : e_input[j] = Specials[i]
    /\ Len(e_result.text) = 2 * (MAX_SSID_LENGTH - 1)

-----------------------------------------------------------------------------
(* Claims about the growable buffer (specification SpecBuf)                *)

\* the texts of ts joined in order
RECURSIVE Concat(_)
Concat(ts) == IF ts = <<>> THEN <<>> ELSE Head(ts) \o Concat(Tail(ts))

RECURSIVE SumLen(_)
SumLen(ts) == IF ts = <<>> THEN 0 ELSE Len(Head(ts)) + SumLen(Tail(ts))

\* the buffer holds a terminated string of current_pos bytes in a block
\* of buffer_size bytes
Terminated ==
    /\ ~jb.buffer.null
    /\ Len(jb.buffer.data) = jb.buffer_size
    /\ jb.current_pos + 1 <= jb.buffer_size
    /\ jb.buffer.data[jb.current_pos + 1] = NUL

C8_ContentIsConcatenation ==
    jb_failed = 0 =>
        /\ ~jb.buffer.null
        /\ jb.current_pos <= Len(jb.buffer.data)
        /\ SubSeq(jb.buffer.data, 1, jb.current_pos) = Concat(jb_texts)
        /\ jb.current_pos = SumLen(jb_texts)

\* the appended texts together exceed the initial capacity, and the last
\* call grew a buffer that already held text
C8_Witness ==
    /\ jb_failed = 0
    /\ Len(jb_texts) >= 3
    /\ jb_prev.current_pos > 0
    /\ jb.buffer_size > jb_prev.buffer_size
    /\ SumLen(jb_texts) > MaxInitCap
    /\ jb.current_pos = SumLen(jb_texts)

-----------------------------------------------------------------------------
(* Claims about the JSON renderers (specification SpecRender)              *)

\* the texts ts[lo..hi] joined in order
RECURSIVE JoinRange(_, _, _)
JoinRange(ts, lo, hi) ==
    IF lo > hi THEN <<>>
    ELSE IF lo = hi THEN ts[lo]
    ELSE LET mid == (lo + hi) \div 2
         IN  JoinRange(ts, lo, mid) \o JoinRange(ts, mid + 1, hi)

StartsWith(text, prefix) ==
    Len(text) >= Len(prefix) /\ SubSeq(text, 1, Len(prefix)) = prefix

EndsWith(text, suffix) ==
    Len(text) >= Len(suffix)
    /\ SubSeq(text, Len(text) - Len(suffix) + 1, Len(text)) = suffix

\* the key an appended text starts with: the bytes between its first two
\* double quotes when only spaces precede the first one, else nothing
KeyOf(text) ==
    LET body == {i \in 1..Len(text) : text[i] # " "}
    IN  IF body = {} THEN <<>>
        ELSE LET i == CHOOSE k \in body : \A l \in body : k <= l
                 closing == {k \in (i + 1)..Len(text) : text[k] = Quote}
             IN  IF text[i] # Quote \/ closing = {} THEN <<>>
                 ELSE LET j == CHOOSE k \in closing : \A l \in closing : k <= l
                      IN  SubSeq(text, i + 1, j - 1)

\* the keys of the appended texts, in order of appending
KeysAppended ==
    LET keyed == SelectSeq(jb_texts, LAMBDA t : KeyOf(t) # <<>>)
    IN  [i \in 1..Len(keyed) |-> KeyOf(keyed[i])]

SampleKeys ==
    << Chars("timestamp_ms"), Chars("signal_strength_dbm"), Chars("link_quality"),
       Chars("snr_db"), Chars("noise_floor_dbm"), Chars("ssid"),
       Chars("frequency_khz"), Chars("channel") >>

MonitorKeys(n) ==
    << Chars("collection_type"), Chars("samples") >>
    \o [i \in 1..(n * Len(SampleKeys)) |-> SampleKeys[((i - 1) % Len(SampleKeys)) + 1]]
    \o << Chars("total_samples") >>

BaseKeys ==
    << Chars("collection_type"), Chars("ssid"), Chars("sample_count"),
       Chars("frequency_khz"), Chars("channel"), Chars("signal_strength_dbm"),
       Chars("link_quality"), Chars("snr_db"), Chars("noise_floor_dbm"),
       Chars("signal_percent"), Chars("noise_percent") >>

\* the appended texts that carry key, in order
TextsWithKey(key) == SelectSeq(jb_texts, LAMBDA t : KeyOf(t) = Chars(key))

\* number of sample objects opened
ObjectsAppended == Len(SelectSeq(jb_texts, LAMBDA t : t = Chars("    {\n")))

\* the document handed to BeaconPrintf is the appended texts, sentinel
\* first and last, keys in the order of the format, and in the monitor
\* shape one object per sample in buffer order with total_samples their number
DocumentShape ==
    LET doc == r_out[1]
    IN  /\ Len(r_out) = 1
        /\ doc = JoinRange(jb_texts, 1, Len(jb_texts))
        /\ StartsWith(doc, Chars("\n[JSON_START]\n"))
        /\ EndsWith(doc, Chars("[JSON_END]\n\n"))
        /\ IF use_base_mode = 1
           THEN KeysAppended = BaseKeys
           ELSE /\ KeysAppended = MonitorKeys(count)
                /\ ObjectsAppended = count
                /\ TextsWithKey("total_samples")
                      = << IntLine("  \"total_samples\": ", ObjectsAppended, "\n}\n") >>
                /\ TextsWithKey("timestamp_ms")
                      = [i \in 1..count |->
                            IntLine("      \"timestamp_ms\": ", samples[i].timestamp_ms, ",\n")]
                /\ TextsWithKey("signal_strength_dbm")
                      = [i \in 1..count |->
                            IntLine("      \"signal_strength_dbm\": ",
                                    samples[i].signal_strength_dbm, ",\n")]

\* C12: every document the renderers emit starts with the [JSON_START]
\* sentinel, ends with the [JSON_END] sentinel, carries its keys in the
\* order of the format, and in the monitor shape holds one object per
\* sample in buffer order with total_samples equal to their number.
C12_EveryDocumentWellFormed == r_out # <<>> => DocumentShape

\* the same for the documents of renders in which no allocation failed
C12_WellFormedWithoutFailure == (r_out # <<>> /\ jb_failed = 0) => DocumentShape

\* C9: once an allocation of the renderer, the first one or one inside
\* append_to_buffer, has failed, nothing reaches CALLBACK_OUTPUT, the
\* process does not crash, and when the renderer has returned no block of
\* it is left allocated.
C9_NothingEmittedAfterFailure ==
    jb_failed > 0 =>
        /\ r_out = <<>>
        /\ r_pc # "crashed"
        /\ r_pc = "returned" => jb.live = 0

-----------------------------------------------------------------------------
(* Claims about the provider call (specification SpecProv)                 *)

Resources == {"hClient", "pIfList", "pConnectInfo", "pBssList"}

\* how many times resource occurs in log
Occurrences(log, resource) == Cardinality({i \in 1..Len(log) : log[i] = resource})

\* C11: whatever the wireless API answers at each stage of one
\* wifi_get_current_signal call, nothing is ever released that was not
\* acquired or was already released, and when the call has returned every
\* acquired resource has been released exactly once.
C11_ReleasedExactlyOnce ==
    \A r \in Resources :
        /\ Occurrences(p_acquired, r) <= 1
        /\ Occurrences(p_released, r) <= Occurrences(p_acquired, r)
        /\ p_pc = "returned" => Occurrences(p_released, r) = Occurrences(p_acquired, r)

\* the call failed at WlanGetNetworkBssList, holding three resources, and
\* has returned
C11_Witness ==
    /\ p_pc = "returned"
    /\ p_q.stage = "bss_fail"
    /\ p_ret = 0
    /\ p_acquired = <<"hClient", "pIfList", "pConnectInfo">>
    /\ Len(p_released) = 3

-----------------------------------------------------------------------------
(* Claims about argument parsing (specification SpecArgs)                  *)

\* word is keyword in any mix of upper and lower case
IsKeyword(word, lower, upper) ==
    /\ Len(word) = Len(lower)
    /\ \A i \in 1..Len(word) : word[i] \in {Chars(lower)[i], Chars(upper)[i]}

IsBaseWord(word) == IsKeyword(word, "base", "BASE")

IsMonitorWord(word) == IsKeyword(word, "monitor", "MONITOR")

NonZeroPositions(text) == {i \in 1..Len(text) : text[i] # "0"}

\* text without its leading zeros
Significant(text) ==
    IF NonZeroPositions(text) = {} THEN <<>>
    ELSE SubSeq(text, CHOOSE i \in NonZeroPositions(text) :
                          \A j \in NonZeroPositions(text) : i <= j, Len(text))

\* the value of a digit string that has at most two significant digits
SmallValue(text) ==
    LET sig == Significant(text)
    IN  IF Len(sig) = 0 THEN 0
        ELSE IF Len(sig) = 1 THEN DigitValue(sig[1])
        ELSE DigitValue(sig[1]) * 10 + DigitValue(sig[2])

\* the decimal value of a digit string lies in 1..60
ValueInRange(text) ==
    /\ Len(Significant(text)) \in 1..2
    /\ SmallValue(text) \in 1..MAX_DURATION_SEC

\* the arguments are a mode keyword, spaces and a decimal integer
KeywordAndNumber ==
    /\ IsBaseWord(g_buffer.word) \/ IsMonitorWord(g_buffer.word)
    /\ Len(g_buffer.sep) >= 1
    /\ Len(g_buffer.tail) >= 1
    /\ \A i \in 1..Len(g_buffer.tail) : IsDigit(g_buffer.tail[i])

\* C13: for every decimal duration given after the mode keyword, the run
\* uses that value when it is in 1..60 and the default of the mode (3 s for
\* base, 5 s for monitor) when it is not; the duration used is never
\* outside 1..60.
C13_DurationOrDefault ==
    (pc = "go" /\ KeywordAndNumber) =>
        /\ duration_sec \in 1..MAX_DURATION_SEC
        /\ duration_sec =
              IF ValueInRange(g_buffer.tail) THEN SmallValue(g_buffer.tail)
              ELSE IF IsBaseWord(g_buffer.word) THEN DEFAULT_BASE_DURATION_SEC
              ELSE DEFAULT_DURATION_SEC

\* the first space-delimited word of the arguments
FirstWord(bytes) ==
    LET spaces == {i \in 1..Len(bytes) : bytes[i] = " "}
    IN  IF spaces = {} THEN bytes
        ELSE SubSeq(bytes, 1, (CHOOSE i \in spaces : \A j \in spaces : i <= j) - 1)

\* C14: when the first word of the arguments is neither "base" nor
\* "monitor" in any case, the run is a continuous-monitor run of 5 s, and a
\* run in averaged-capture mode has "base" as the first word.
C14_UnknownWordMeansMonitor ==
    pc = "go" =>
        LET word == FirstWord(BufferBytes(g_buffer))
        IN  /\ (~IsBaseWord(word) /\ ~IsMonitorWord(word)) =>
                  (use_base_mode = 0 /\ duration_sec = DEFAULT_DURATION_SEC)
            /\ use_base_mode = 1 => IsBaseWord(word)

-----------------------------------------------------------------------------
(* Claims about the metric estimators (specification SpecFn)               *)

Returned(fn) == f_pc = "returned" /\ f_fn = fn

\* the floor of the band of link quality q and the SNR at that floor
BandFloor(q) == IF q >= 40 THEN (IF q >= 90 THEN 90 ELSE (q \div 10) * 10) ELSE 0

SnrAtFloor(floor) == IF floor = 0 THEN 0 ELSE (floor \div 2) - 10

\* C15: for every link quality 0..100 the SNR is the SNR at the floor of
\* its band (35, 30, 25, 20, 15, 10 at 90, 80, 70, 60, 50, 40) plus half
\* the excess over the floor, and q*10/40 below 40, in integer division.
C15_SnrBands ==
    Returned("wifi_calculate_snr") =>
        LET q == f_arg
        IN  /\ q >= 40 => f_result.snr = SnrAtFloor(BandFloor(q)) + (q - BandFloor(q)) \div 2
            /\ q < 40 => f_result.snr = (q * 10) \div 40
            /\ q \in {90, 80, 70, 60, 50, 40} => f_result.snr = (q \div 2) - 10

\* the estimator has returned 32 for link quality 85
C15_Witness ==
    Returned("wifi_calculate_snr") /\ f_arg = 85 /\ f_result.snr = 32

\* C16: the percentage is in 0..100, is 100 from -30 dBm up and 0 from
\* -100 dBm down, is ((dbm+100)*100)/70 in between, and does not decrease
\* when the input grows by one.
C16_PercentSaturatesMonotone ==
    Returned("wifi_dbm_to_percent") =>
        LET d == f_arg
        IN  /\ f_result \in 0..100
            /\ d >= -30 => f_result = 100
            /\ d <= -100 => f_result = 0
            /\ (d > -100 /\ d < -30) => f_result = ((d + 100) * 100) \div 70
            /\ d < INT_MAX => f_result <= wifi_dbm_to_percent(d + 1)

\* the estimator has returned 98 for -31 dBm, one below the saturation point
C16_Witness ==
    Returned("wifi_dbm_to_percent") /\ f_arg = -31 /\ f_result = 98

C18_Channels1To13 ==
    (Returned("wifi_frequency_to_channel") /\ (f_arg \div 1000) \in 2412..2484) =>
        LET mhz == f_arg \div 1000
        IN  IF mhz = 2484 THEN f_result = 14
            ELSE f_result = (mhz - 2407) \div 5 /\ f_result \in 1..13

-----------------------------------------------------------------------------
(* Claims about the console monitor (specification SpecNetsh)              *)

Shown == n_pc = "shown"

\* C19: the console monitor turns the percentage p it parsed into
\* p/2 - 100 dBm when 0 < p < 100, -30 dBm when p >= 100 and -100 dBm when
\* p <= 0, so the figure lies in -100..-30 dBm; a Signal field that is
\* missing or cannot be parsed counts as p = 0.  (Values are in half dB.)
C19_PercentToDbm ==
    Shown =>
        LET p == n_row.signal_pct
            halves == n_row.signal_dbm_halves
        IN  /\ n_output.signal.kind = "percent" => p = n_output.signal.p
            /\ n_output.signal.kind \in {"absent", "empty", "text"} => p = 0
            /\ (0 < p /\ p < 100) => halves = p - 200
            /\ p >= 100 => halves = -60
            /\ p <= 0 => halves = -200
            /\ halves \in -200..-60

\* an odd percentage was parsed and shown with its half dB
C19_Witness ==
    /\ Shown
    /\ n_output.signal.kind = "percent" /\ n_output.signal.p = 85
    /\ n_row.signal_dbm_halves = -115

-----------------------------------------------------------------------------
(* Claims about the sampling loop (specification Spec)                     *)

PollTaken == hist'.polls = hist.polls + 1

PollFailed == PollTaken /\ hist'.succ_at = hist.succ_at

\* C20: a poll on which the provider fails leaves the sample count and the
\* sample array as they were (nothing appended, the slot at index count not
\* written), and every poll, failed or not, keeps the samples already stored
\* and is followed by exactly one sleep of one interval before the next poll.
C20_FailedPollSkipsButSleeps ==
    [][/\ PollFailed => (count' = count /\ samples' = samples)
       /\ PollTaken =>
            /\ \A i \in 1..count : SlotAt(samples', i) = SlotAt(samples, i)
            /\ count' \in {count, count + 1}
            /\ hist'.sleeps = hist.sleeps + 1
            /\ hist'.sleeps = hist'.polls
            /\ clock' - clock \in {SAMPLE_INTERVAL_MS, LagMs + SAMPLE_INTERVAL_MS}
       /\ hist'.sleeps # hist.sleeps => PollTaken]_vars

\* samples were stored, some polls failed, and the loop is still running
C20_Witness ==
    /\ pc = "loop"
    /\ count >= 1 /\ Len(samples) = count
    /\ Len(hist.succ_at) = count
    /\ hist.polls >= count + 2
    /\ hist.sleeps = hist.polls

\* C21: the timestamp stored with each appended sample is the time elapsed
\* since the start of the loop at the moment the provider call succeeded,
\* also when the provider call itself took time.
C21_TimestampAtSuccess ==
    /\ Len(hist.succ_at) = count
    /\ \A i \in 1..count : samples[i].timestamp_ms = hist.succ_at[i]

\* the same for runs in which no provider call took time
C21_TimestampWithoutLag ==
    hist.lagged = 0 =>
        /\ Len(hist.succ_at) = count
        /\ \A i \in 1..count : samples[i].timestamp_ms = hist.succ_at[i]

\* C22: for every duration 1..60 s and every sequence of provider successes
\* and failures, when every provider call returns and every sleep advances
\* the clock by at least one interval, wifi_collect_samples returns, having
\* called the provider at most duration*1000/100 times, and it polls no more
\* once the elapsed time has reached the duration or the count the cap.
C22_LoopTerminates ==
    /\ (pc = "loop") ~> (pc = "collected")
    /\ [](hist.polls <= CDiv(duration_sec * 1000, SAMPLE_INTERVAL_MS))
    /\ [][(\/ Elapsed(clock, start_time) >= duration_sec * 1000
           \/ count >= (IF duration_sec * 10 < 600 THEN duration_sec * 10 ELSE 600))
          => hist'.polls = hist.polls]_vars

\* a run returned after a poll that took time and a failed poll
C22_Witness ==
    /\ pc = "collected"
    /\ hist.lagged >= 1
    /\ hist.polls > count
    /\ count >= 1

-----------------------------------------------------------------------------
(* Claims about the escaping of control characters (specification SpecEsc) *)

\* the bytes 0x01..0x1F an identifier of the model can hold
ControlBytes == {Newline, Return, Tab, FormFeed}

\* C23: for every network identifier, whatever bytes it holds, the text
\* escape_json_string leaves between the quotes of the ssid field contains
\* no unescaped byte of 0x01..0x1F.
C23_NoRawControlByte ==
    e_pc = "returned" =>
        \A i \in 1..Len(e_result.text) : e_result.text[i] \notin ControlBytes

\* the same for the three control characters the function has a branch for
C23_NoRawNewlineReturnTab ==
    e_pc = "returned" =>
        \A i \in 1..Len(e_result.text) : e_result.text[i] \notin {Newline, Return, Tab}

-----------------------------------------------------------------------------
(* Claims about int_to_string (specification SpecFn)                       *)

\* minus the number a digit string denotes (minus, so that the magnitude of
\* the most negative int is within range)
RECURSIVE MinusValueOf(_, _, _)
MinusValueOf(digits, i, acc) ==
    IF i > Len(digits) THEN acc
    ELSE MinusValueOf(digits, i + 1, acc * 10 - DigitValue(digits[i]))

\* text is the canonical decimal representation of value
IsCanonicalDecimal(text, value) ==
    LET signed == Len(text) > 0 /\ text[1] = "-"
        digits == IF signed THEN SubSeq(text, 2, Len(text)) ELSE text
    IN  /\ signed <=> value < 0
        /\ Len(digits) \in 1..10
        /\ \A i \in 1..Len(digits) : IsDigit(digits[i])
        /\ Len(digits) > 1 => digits[1] # "0"
        /\ MinusValueOf(digits, 1, 0) = (IF value < 0 THEN value ELSE 0 - value)

\* C24: for every 32-bit int, zero and the most negative value included
\* (its negation wrapping to itself), int_to_string with the renderers'
\* 64-byte buffer leaves the canonical decimal representation: "-" exactly
\* for a negative value, then the digits of the magnitude, most significant
\* first, without leading zeros.
C24_CanonicalDecimal ==
    Returned("int_to_string") => IsCanonicalDecimal(f_result, f_arg)

\* the same for every value but the most negative one
C24_CanonicalAboveMin ==
    (Returned("int_to_string") /\ f_arg # INT_MIN) => IsCanonicalDecimal(f_result, f_arg)

-----------------------------------------------------------------------------
(* Claims about the averaged noise floor (specification SpecAvg)           *)

\* averaged noise floor minus (averaged signal minus averaged SNR)
NoiseGap(a) == a.noise_floor_dbm - (a.signal_strength_dbm - a.snr_db)

\* C25: for every non-empty buffer whose samples satisfy noise = signal -
\* SNR, the averaged noise floor differs from the averaged signal minus the
\* averaged SNR by at most 1 (each field being truncated on its own).
C25_AveragedNoiseWithinOne ==
    (/\ a_pc = "returned"
     /\ a_count > 0
     /\ \A i \in 1..a_count :
           a_samples[i].noise_floor_dbm
               = a_samples[i].signal_strength_dbm - a_samples[i].snr_db)
    => NoiseGap(a_result.avg) \in {-1, 0, 1}

\* three samples obeying the identity whose averages do not: the gap is not 0
C25_Witness ==
    /\ a_pc = "returned"
    /\ a_count = 3
    /\ \A i \in 1..a_count :
          a_samples[i].noise_floor_dbm
              = a_samples[i].signal_strength_dbm - a_samples[i].snr_db
    /\ NoiseGap(a_result.avg) # 0

=============================================================================
